---- MODULE Spec2Model ----
(***************************************************************************)
(* A model of the notex retrieval-and-generation core:                     *)
(*   - the on-demand vector index loader and the handlers that ingest      *)
(*     sources and run chat / transform requests (server.go, agent.go);    *)
(*   - the image generation clients with their retry loops                 *)
(*     (gemini.go, glm client, zimage client);                             *)
(*   - the TTL cache in front of the metadata store (CachedStore);         *)
(*   - ParsePPTSlides and the per-slide image loop of handleTransform.     *)
(***************************************************************************)
EXTENDS Integers, Sequences, FiniteSets, TLC

(***************************************************************************)
(* Bounds of the model.                                                    *)
(***************************************************************************)
MaxProcs == 2          \* concurrent request goroutines
MaxStoredSources == 2  \* rows of the sources table
MaxSources == 1        \* cfg.MaxSources, the k of the similarity search
MaxTime == 7           \* minutes of wall-clock time the cache is followed for
MaxVersion == 2        \* mutations of one key of the metadata store
MaxLen == 4            \* tokens of a generated text given to ParsePPTSlides
MaxDeck == 12          \* slides of a generated deck given to handleTransform
MaxCtxSources == 2     \* sources of the notebook a transformation is asked on
MaxCtxLimit == 3       \* the largest configured MaxContextLength, in bytes
MaxParts == 3          \* parts of the first candidate of a text response
MaxHistory == 12       \* messages of the session a chat is asked in
MaxNotes == 3          \* notes of the notebook transformations are saved in
MaxItems == 1          \* notes, and chat sessions, of one notebook
MaxClock == 2          \* seconds of time.Now().Unix() callDeepInsight is followed for

Procs == 1..MaxProcs
Notebooks == {"n1", "n2"}
Contents == {"", "text"}          \* a source's content: empty or not
NoProc == 0

VARIABLES
    \* ---- server.go: Server and its collaborators
    sources,          \* the sources table: sequence of [id, notebookID, content]
    vectorIndex,      \* VectorStore: sequence of chunks [notebookID, source, chunkIndex]
    loadedNotebooks,  \* Server.loadedNotebooks
    vectorMutex,      \* Server.vectorMutex: NoProc or the goroutine holding it
    pc,               \* per goroutine: where its handler stands
    req,              \* per goroutine: the request it serves [kind, notebookID]
    loadList,         \* per goroutine: the sources listed by the loader
    loadIdx,          \* per goroutine: loop position in loadList
    resp,             \* per goroutine: what the handler answered
    loadRuns,         \* per notebook: how many invocations entered the load loop
    listed,           \* per notebook: rows of the table when the loader listed it
    ingestCalls       \* per source id: IngestText calls by the loader (load) and
                      \* by the source handlers (add), and how many returned no error (ok)

VARIABLES
    \* ---- gemini.go, glm client, zimage client: one GenerateImage call
    imgPc,            \* "idle", "called", "loop" (Gemini's retry loop), "done"
    imgCall,          \* the call: [provider, key, userID]
    imgAttempt,       \* Gemini's loop variable attempt
    imgOutcomes,      \* what each upstream generation request came back with
    imgLastErr,       \* Gemini's lastErr
    imgResult         \* what GenerateImage returned: [kind, err, cause, dir]

VARIABLES
    \* ---- CachedStore in front of Store
    store,            \* the backing store: per key, the version of its value
    cache,            \* per key, the entry [present, value, insertedAt]
    now,              \* wall-clock time, in minutes
    preWrite,         \* per key, the value cached when it was last mutated (-1: none)
    lastOp            \* the last operation on the wrapper and what it returned

VARIABLES
    \* ---- the ppt block of handleTransform and ParsePPTSlides
    pptPc,            \* "start", "parsed", "loop", "done"
    pptContent,       \* response.Content, a sequence of tokens
    pptSlides,        \* slides, as ParsePPTSlides returned it
    pptIdx,           \* the loop variable i (1-based)
    pptCalls,         \* the GenerateImage calls made, in call order: [slide, ok]
    slideURLs,        \* slideURLs: the slides whose image was generated
    metadata          \* the note metadata: [image_error, slides]

VARIABLES
    \* ---- handleTransform and GenerateTransformation: sources, prompt, note
    trPc,             \* "idle", "build" (the loop over sources), "done"
    trCfg,            \* a.cfg.MaxContextLength
    trRequested,      \* req.SourceIDs
    trSources,        \* sources, as handed to GenerateTransformation
    trIdx,            \* the loop variable i (1-based)
    sourceContext,    \* sourceContext: per source, what was written for it
    trResponse,       \* the answer: [status, Sources]
    trNote            \* the note saved: [saved, SourceIDs]

VARIABLES
    \* ---- GenerateTextWithModel of the three clients: one call
    txtPc,            \* "idle", "called", "request" (Gemini's upstream call), "done"
    txtCall,          \* the call: [provider, key, model, prompt]
    txtRequests,      \* upstream GenerateContent calls made for it
    txtResponse,      \* what the upstream call came back with
    txtResult         \* what GenerateTextWithModel returned: [text, err]

VARIABLES
    \* ---- one chat or transform request and the contexts of its calls
    hcPc,             \* "idle", "call" (a generation step is in flight), "done"
    hcKind,           \* the request: "chat", "send", or the type of a transform
    hcStep,           \* the step of its plan that is in flight
    hcCancelled,      \* the contexts cancelled so far
    hcOutcome         \* how the request ended: "ok", or "aborted" at a step

VARIABLES
    \* ---- Agent.callDeepInsight, per goroutine, and the ./tmp directory
    diPc,             \* per goroutine: "idle", "exec", "cat", "rm", "done"
    diFile,           \* per goroutine: tmpFile, named by the second of the call
    diResult,         \* per goroutine: what callDeepInsight returned [status, report]
    diClock,          \* time.Now().Unix()
    tmpFiles          \* ./tmp: per file name, the goroutine whose report it holds

VARIABLES
    \* ---- NewServer / NewAgent: the configured image backend and the client in use
    cfgImageProvider, \* cfg.ImageProvider ("unset" before NewServer)
    agentProvider,    \* s.agent.provider: the client NewAgent built ("none" before)
    imageModel        \* the model argument of the GenerateImage call ("none": no call yet)

VARIABLES
    \* ---- Agent.Chat: the history block of the prompt
    chPc,             \* "idle", "loop" (the range over history), "done"
    chHistory,        \* history: the messages of the session, [Role, Content]
    chIdx,            \* the loop variable i (1-based)
    historyBuilder    \* historyBuilder: the lines written, [label, Content]

VARIABLES
    \* ---- handleTransform: the check for a note of the same type, and the save
    cfgLoaded,        \* the configuration has been read
    AllowMultipleNotesOfSameType,  \* cfg.AllowMultipleNotesOfSameType
    notes,            \* the notes table of one notebook: sequence of [Type]
    tnPc,             \* per goroutine: "idle", "generate", "done"
    tnType,           \* per goroutine: req.Type
    tnStatus          \* per goroutine: the status answered (0: none yet)

VARIABLES
    \* ---- the /api/notebooks/:id routes: who is served on whose notebook
    notebookOwner,    \* per notebook: Notebook.UserID ("none": no such notebook)
    noteCount,        \* per notebook: its notes
    sessionCount,     \* per notebook: its chat sessions
    lastAccess        \* the last request answered: [route, userID, notebookID, status]

serverVars == <<sources, vectorIndex, loadedNotebooks, vectorMutex, pc, req,
                loadList, loadIdx, resp, loadRuns, listed, ingestCalls>>

imageVars == <<imgPc, imgCall, imgAttempt, imgOutcomes, imgLastErr, imgResult>>

cacheVars == <<store, cache, now, preWrite, lastOp>>

pptVars == <<pptPc, pptContent, pptSlides, pptIdx, pptCalls, slideURLs, metadata>>

trVars == <<trPc, trCfg, trRequested, trSources, trIdx, sourceContext, trResponse, trNote>>

textVars == <<txtPc, txtCall, txtRequests, txtResponse, txtResult>>

cancelVars == <<hcPc, hcKind, hcStep, hcCancelled, hcOutcome>>

insightVars == <<diPc, diFile, diResult, diClock, tmpFiles>>

wiringVars == <<cfgImageProvider, agentProvider, imageModel>>

historyVars == <<chPc, chHistory, chIdx, historyBuilder>>

tnVars == <<cfgLoaded, AllowMultipleNotesOfSameType, notes, tnPc, tnType, tnStatus>>

apiVars == <<notebookOwner, noteCount, sessionCount, lastAccess>>

vars == <<serverVars, imageVars, cacheVars, pptVars, trVars, textVars, cancelVars, insightVars, wiringVars, historyVars, tnVars, apiVars>>

\* what the server's handlers leave alone
notServerVars == <<imageVars, cacheVars, pptVars, trVars, textVars, cancelVars, insightVars, wiringVars, historyVars, tnVars, apiVars>>

\* what a GenerateImage call leaves alone
notImageVars == <<serverVars, cacheVars, pptVars, trVars, textVars, cancelVars, insightVars, wiringVars, historyVars, tnVars, apiVars>>

\* what an operation on the cached store leaves alone
notCacheVars == <<serverVars, imageVars, pptVars, trVars, textVars, cancelVars, insightVars, wiringVars, historyVars, tnVars, apiVars>>

\* what the ppt block leaves alone
notPPTVars == <<serverVars, imageVars, cacheVars, trVars, textVars, cancelVars, insightVars, wiringVars, historyVars, tnVars, apiVars>>

\* what the assembly of a transformation leaves alone
notTrVars == <<serverVars, imageVars, cacheVars, pptVars, textVars, cancelVars, insightVars, wiringVars, historyVars, tnVars, apiVars>>

\* what a GenerateTextWithModel call leaves alone
notTextVars == <<serverVars, imageVars, cacheVars, pptVars, trVars, cancelVars, insightVars, wiringVars, historyVars, tnVars, apiVars>>

\* what the contexts of a request leave alone
notCancelVars == <<serverVars, imageVars, cacheVars, pptVars, trVars, textVars, insightVars, wiringVars, historyVars, tnVars, apiVars>>

\* what callDeepInsight leaves alone
notInsightVars == <<serverVars, imageVars, cacheVars, pptVars, trVars, textVars, cancelVars, wiringVars, historyVars, tnVars, apiVars>>

\* what the construction of the server and the choice of the image model leave alone
notWiringVars == <<serverVars, imageVars, cacheVars, pptVars, trVars, textVars, cancelVars, insightVars, historyVars, tnVars, apiVars>>

\* what the building of the history block leaves alone
notHistoryVars == <<serverVars, imageVars, cacheVars, pptVars, trVars, textVars, cancelVars, insightVars, wiringVars, tnVars, apiVars>>

\* what the note handling of handleTransform leaves alone
notTnVars == <<serverVars, imageVars, cacheVars, pptVars, trVars, textVars, cancelVars, insightVars, wiringVars, historyVars, apiVars>>

\* what the notebook routes leave alone
notApiVars == <<serverVars, imageVars, cacheVars, pptVars, trVars, textVars, cancelVars, insightVars, wiringVars, historyVars, tnVars>>

(***************************************************************************)
(* Helpers on sequences.                                                   *)
(***************************************************************************)
Range(s) == {s[i] : i \in DOMAIN s}

SelectIdx(s, Test(_)) == {i \in DOMAIN s : Test(s[i])}

\* the sequences of distinct positions of s, of length n
RECURSIVE Picks(_, _)
Picks(S, n) ==
    IF n = 0 THEN {<<>>}
    ELSE UNION {{<<x>> \o t : t \in Picks(S \ {x}, n - 1)} : x \in S}

Min(a, b) == IF a < b THEN a ELSE b

(***************************************************************************)
(* VectorStore (vector.go is not among the sources: modelled from the      *)
(* component contract).                                                    *)
(***************************************************************************)
\* Chunker: the text is split into chunks tagged with notebook and source; a
\* text no longer than the chunk size is one chunk, an empty text none
Chunks(notebookID, sourceName, content) ==
    IF content = "" THEN <<>>
    ELSE <<[notebookID |-> notebookID, source |-> sourceName, chunkIndex |-> 1]>>

\* VectorStore.IngestText: embeds and appends the chunks; ok = FALSE is an
\* embedding failure, which leaves the index as it was
IngestText(index, notebookID, sourceName, content, ok) ==
    IF ok THEN index \o Chunks(notebookID, sourceName, content) ELSE index

\* VectorStore.SimilaritySearch(ctx, query, k): the k nearest chunks of the
\* index, nearest first.  The call carries no notebook, and the similarity of
\* a chunk to the query is arbitrary: any k distinct chunks, in any order.
SimilaritySearch(index, k) ==
    {[i \in DOMAIN p |-> index[p[i]]] :
        p \in Picks(DOMAIN index, Min(k, Len(index)))}

(***************************************************************************)
(* Store: the sources table.                                               *)
(***************************************************************************)
\* Store.ListSources(notebookID)
ListSources(notebookID) ==
    SelectSeq(sources, LAMBDA s : s.notebookID = notebookID)

\* Store.CreateSource: the new row, its id assigned by the store
NewSource(notebookID, content) ==
    [id |-> Len(sources) + 1, notebookID |-> notebookID, content |-> content]

StoreHasRoom == Len(sources) < MaxStoredSources

(***************************************************************************)
(* Server: state after NewServer.                                          *)
(***************************************************************************)
NoReq == [kind |-> "none", notebookID |-> "n1"]
NoResp == [status |-> "none", docs |-> <<>>, sources |-> <<>>]
NoCalls == [load |-> 0, add |-> 0, ok |-> 0]

\* NewServer: nothing is loaded, no request is in flight
FreshServer ==
    /\ vectorIndex = <<>>
    /\ loadedNotebooks = [n \in Notebooks |-> FALSE]
    /\ vectorMutex = NoProc
    /\ pc = [p \in Procs |-> "idle"]
    /\ req = [p \in Procs |-> NoReq]
    /\ loadList = [p \in Procs |-> <<>>]
    /\ loadIdx = [p \in Procs |-> 1]
    /\ resp = [p \in Procs |-> NoResp]
    /\ loadRuns = [n \in Notebooks |-> 0]
    /\ listed = [n \in Notebooks |-> 0]
    /\ ingestCalls = [i \in 1..(MaxStoredSources + 1) |-> NoCalls]

\* the tables of at most MaxStoredSources rows
RECURSIVE SourceTables(_)
SourceTables(n) ==
    IF n = 0 THEN {<<>>}
    ELSE LET shorter == SourceTables(n - 1) IN
         shorter \cup
         {Append(t, [id |-> n, notebookID |-> nb, content |-> c]) :
             t \in {u \in shorter : Len(u) = n - 1},
             nb \in Notebooks, c \in Contents}


(***************************************************************************)
(* Server.loadNotebookVectorIndex                                          *)
(***************************************************************************)
\* a loader that does not take the mutex
MutexIgnored == TRUE

\* s.vectorMutex.Lock() returns only when no goroutine holds the mutex
MutexAvailable == vectorMutex = NoProc

\* s.vectorMutex.Lock(), the loaded check, then ListSources; the deferred
\* Unlock runs on each return
LoadEnter(p) ==
    /\ pc[p] = "lock"
    /\ MutexAvailable
    /\ \/ /\ loadedNotebooks[req[p].notebookID]
          /\ vectorMutex' = NoProc
          /\ pc' = [pc EXCEPT ![p] = "body"]
          /\ UNCHANGED <<loadList, loadIdx, loadRuns, listed>>
       \/ /\ ~loadedNotebooks[req[p].notebookID]
          /\ \/ \* ListSources fails: the error is returned
                /\ vectorMutex' = NoProc
                /\ pc' = [pc EXCEPT ![p] = "body"]
                /\ UNCHANGED <<loadList, loadIdx, loadRuns, listed>>
             \/ \* ListSources succeeds
                /\ loadList' = [loadList EXCEPT ![p] = ListSources(req[p].notebookID)]
                /\ loadIdx' = [loadIdx EXCEPT ![p] = 1]
                /\ loadRuns' = [loadRuns EXCEPT ![req[p].notebookID] = @ + 1]
                /\ listed' = [listed EXCEPT ![req[p].notebookID] = Len(sources)]
                /\ pc' = [pc EXCEPT ![p] = "loop"]
                /\ vectorMutex' = p
    /\ UNCHANGED <<sources, vectorIndex, loadedNotebooks, req, resp, ingestCalls>>
    /\ UNCHANGED notServerVars

\* a loop that gives up at the first source that cannot be ingested
LoopStopsOnError(idx, len, ok) == IF ok THEN idx + 1 ELSE len + 1

\* for _, src := range sources: a failed IngestText is logged (golog.Errorf)
\* and the loop goes on to the next source
LoopAfterIngest(idx, len, ok) == idx + 1

\* one iteration of the loop over the listed sources
LoadStep(p) ==
    /\ pc[p] = "loop"
    /\ loadIdx[p] <= Len(loadList[p])
    /\ LET src == loadList[p][loadIdx[p]] IN
         IF src.content # ""
         THEN \E ok \in BOOLEAN :
                /\ vectorIndex' = IngestText(vectorIndex, req[p].notebookID,
                                             src.id, src.content, ok)
                /\ ingestCalls' = [ingestCalls EXCEPT
                                     ![src.id].load = @ + 1,
                                     ![src.id].ok = IF ok THEN @ + 1 ELSE @]
                /\ loadIdx' = [loadIdx EXCEPT ![p] =
                                 LoopAfterIngest(@, Len(loadList[p]), ok)]
         ELSE /\ loadIdx' = [loadIdx EXCEPT ![p] = @ + 1]
              /\ UNCHANGED <<vectorIndex, ingestCalls>>
    /\ UNCHANGED <<sources, loadedNotebooks, vectorMutex, pc, req, loadList,
                   resp, loadRuns, listed>>
    /\ UNCHANGED notServerVars

\* after the loop: mark the notebook loaded, return nil, Unlock
LoadDone(p) ==
    /\ pc[p] = "loop"
    /\ loadIdx[p] > Len(loadList[p])
    /\ loadedNotebooks' = [loadedNotebooks EXCEPT ![req[p].notebookID] = TRUE]
    /\ vectorMutex' = NoProc
    /\ pc' = [pc EXCEPT ![p] = "body"]
    /\ loadList' = [loadList EXCEPT ![p] = <<>>]
    /\ loadIdx' = [loadIdx EXCEPT ![p] = 1]
    /\ UNCHANGED <<sources, vectorIndex, req, resp, loadRuns, listed, ingestCalls>>
    /\ UNCHANGED notServerVars

(***************************************************************************)
(* Agent.Chat, reached from handleChat and handleSendMessage               *)
(***************************************************************************)
\* the de-duplicated source names of the retrieved documents, in order
RECURSIVE SourceSummaries(_)
SourceSummaries(docs) ==
    IF docs = <<>> THEN <<>>
    ELSE LET front == SourceSummaries(SubSeq(docs, 1, Len(docs) - 1))
             last == docs[Len(docs)].source
         IN IF last \in Range(front) THEN front ELSE Append(front, last)

\* Agent.Chat(ctx, notebookID, message, history)
Chat(notebookID, docs, genOk) ==
    IF genOk
    THEN [status |-> "ok", docs |-> docs, sources |-> SourceSummaries(docs)]
    ELSE [status |-> "error", docs |-> docs, sources |-> <<>>]

\* handleChat / handleSendMessage: entry, up to the call of the loader
handleChat(p, notebookID) ==
    /\ pc[p] = "idle"
    /\ req' = [req EXCEPT ![p] =
                 [kind |-> "chat", notebookID |-> notebookID]]
    /\ pc' = [pc EXCEPT ![p] = "lock"]
    /\ UNCHANGED <<resp, sources, vectorIndex, loadedNotebooks, vectorMutex,
                   loadList, loadIdx, loadRuns, listed, ingestCalls>>
    /\ UNCHANGED notServerVars

\* handleChat / handleSendMessage: after the loader, s.agent.Chat and the answer
handleChatBody(p) ==
    /\ pc[p] = "body"
    /\ req[p].kind = "chat"
    /\ \E docs \in SimilaritySearch(vectorIndex, MaxSources), genOk \in BOOLEAN :
         resp' = [resp EXCEPT ![p] = Chat(req[p].notebookID, docs, genOk)]
    /\ pc' = [pc EXCEPT ![p] = "done"]
    /\ UNCHANGED <<sources, vectorIndex, loadedNotebooks, vectorMutex, req,
                   loadList, loadIdx, loadRuns, listed, ingestCalls>>
    /\ UNCHANGED notServerVars

(***************************************************************************)
(* Source handlers                                                         *)
(***************************************************************************)
\* CreateSource, then IngestText when the content is not empty
AddAndIngest(notebookID, content) ==
    LET source == NewSource(notebookID, content) IN
    /\ sources' = Append(sources, source)
    /\ IF content # ""
       THEN \E ok \in BOOLEAN :
              /\ vectorIndex' = IngestText(vectorIndex, notebookID, source.id,
                                           content, ok)
              /\ ingestCalls' = [ingestCalls EXCEPT
                                   ![source.id].add = @ + 1,
                                   ![source.id].ok = IF ok THEN @ + 1 ELSE @]
       ELSE UNCHANGED <<vectorIndex, ingestCalls>>

\* Server.handleAddSource: the content comes from the request or from the URL
handleAddSource(notebookID, content) ==
    /\ StoreHasRoom
    /\ AddAndIngest(notebookID, content)
    /\ UNCHANGED <<loadedNotebooks, vectorMutex, pc, req, loadList, loadIdx,
                   resp, loadRuns, listed>>
    /\ UNCHANGED notServerVars

\* Server.handleUpload: the content comes from ExtractDocument
handleUpload(notebookID, content) ==
    /\ StoreHasRoom
    /\ AddAndIngest(notebookID, content)
    /\ UNCHANGED <<loadedNotebooks, vectorMutex, pc, req, loadList, loadIdx,
                   resp, loadRuns, listed>>
    /\ UNCHANGED notServerVars

(***************************************************************************)
(* Server.handleTransform (text transformations; the ppt image loop is     *)
(* modelled further down)                                                  *)
(***************************************************************************)
TransformTypes == {"summary", "insight"}

\* handleTransform: entry, up to the call of the loader (the request body,
\* with its type, is bound after the loader returns)
handleTransform(p, notebookID) ==
    /\ pc[p] = "idle"
    /\ req' = [req EXCEPT ![p] =
                 [kind |-> "transform", notebookID |-> notebookID]]
    /\ pc' = [pc EXCEPT ![p] = "lock"]
    /\ UNCHANGED <<resp, sources, vectorIndex, loadedNotebooks, vectorMutex,
                   loadList, loadIdx, loadRuns, listed, ingestCalls>>
    /\ UNCHANGED notServerVars

\* after the loader: bind the request, list the sources, generate, save the
\* note and, for an insight, inject the report as a new source
handleTransformBody(p, type) ==
    /\ pc[p] = "body"
    /\ req[p].kind = "transform"
    /\ pc' = [pc EXCEPT ![p] = "done"]
    /\ IF ListSources(req[p].notebookID) = <<>>
       THEN /\ resp' = [resp EXCEPT ![p] = [NoResp EXCEPT !.status = "bad_request"]]
            /\ UNCHANGED <<sources, vectorIndex, ingestCalls>>
       ELSE \/ \* GenerateTransformation fails
               /\ resp' = [resp EXCEPT ![p] = [NoResp EXCEPT !.status = "error"]]
               /\ UNCHANGED <<sources, vectorIndex, ingestCalls>>
            \/ \* the note is generated and saved
               /\ resp' = [resp EXCEPT ![p] = [NoResp EXCEPT !.status = "ok"]]
               /\ IF type = "insight" /\ StoreHasRoom
                  THEN \E content \in Contents :
                         AddAndIngest(req[p].notebookID, content)
                  ELSE UNCHANGED <<sources, vectorIndex, ingestCalls>>
    /\ UNCHANGED <<loadedNotebooks, vectorMutex, req, loadList, loadIdx, loadRuns, listed>>
    /\ UNCHANGED notServerVars

\* Store.DeleteSource: the row is gone from the table (its slot stays, so that
\* the ids of the other rows do not move)
DeletedSource(sourceID) ==
    [id |-> sourceID, notebookID |-> "deleted", content |-> ""]

\* Server.handleDeleteSource: GetSource, checkNotebookAccess, DeleteSource.
\* An unknown source answers 404; a refused access (403) or a failed delete
\* (500) leaves the table as it was.  The vector store is not called.
handleDeleteSource(sourceID) ==
    /\ sourceID \in DOMAIN sources
    /\ sources[sourceID].notebookID \in Notebooks
    /\ \/ UNCHANGED sources
       \/ sources' = [sources EXCEPT ![sourceID] = DeletedSource(sourceID)]
    /\ UNCHANGED <<vectorIndex, loadedNotebooks, vectorMutex, pc, req, loadList,
                   loadIdx, resp, loadRuns, listed, ingestCalls>>
    /\ UNCHANGED notServerVars

\* c.JSON(...): the answer is written and the goroutine ends
Reply(p) ==
    /\ pc[p] = "done"
    /\ pc' = [pc EXCEPT ![p] = "idle"]
    /\ req' = [req EXCEPT ![p] = NoReq]
    /\ resp' = [resp EXCEPT ![p] = NoResp]
    /\ UNCHANGED <<sources, vectorIndex, loadedNotebooks, vectorMutex,
                   loadList, loadIdx, loadRuns, listed, ingestCalls>>
    /\ UNCHANGED notServerVars

(***************************************************************************)
(* Image generation clients: GeminiClient, GLMImageClient, ZImageClient    *)
(***************************************************************************)
Providers == {"gemini", "glm", "zimage"}

\* a credential: not set, set but not of the form id.secret, or id.secret
Keys == {"", "malformed", "id.secret"}

\* c.GetString("user_id"): no identity, or a user
UserIDs == {"", "u1"}

NoCall == [provider |-> "none", key |-> "", userID |-> ""]
NoResult == [kind |-> "none", err |-> "none", cause |-> "none", dir |-> "none"]

\* a returned path, in directory dir
PathResult(dir) == [kind |-> "path", err |-> "none", cause |-> "none", dir |-> dir]

\* a returned error; cause is the error it wraps (%w), "none" when it wraps none
ErrorResult(err, cause) == [kind |-> "error", err |-> err, cause |-> cause, dir |-> "none"]

ImageIdle ==
    /\ imgPc = "idle"
    /\ imgCall = NoCall
    /\ imgAttempt = 0
    /\ imgOutcomes = <<>>
    /\ imgLastErr = "none"
    /\ imgResult = NoResult

\* a client that does not look at its credential
CredentialUnchecked(key) == FALSE

\* if n.googleAPIKey == "" / g.apiKey == "" / z.apiKey == ""
CredentialMissing(key) == key = ""

\* the caller's s.agent.provider.GenerateImage(ctx, model, prompt, userID)
GenerateImage(provider, key, userID) ==
    /\ imgPc = "idle"
    /\ imgPc' = "called"
    /\ imgCall' = [provider |-> provider, key |-> key, userID |-> userID]
    /\ UNCHANGED <<imgAttempt, imgOutcomes, imgLastErr, imgResult>>
    /\ UNCHANGED notImageVars

\* the call has returned to its caller
ImageReturn ==
    /\ imgPc = "done"
    /\ imgPc' = "idle"
    /\ imgCall' = NoCall
    /\ imgAttempt' = 0
    /\ imgOutcomes' = <<>>
    /\ imgLastErr' = "none"
    /\ imgResult' = NoResult
    /\ UNCHANGED notImageVars

\* os.MkdirAll, then os.WriteFile
SaveOutcomes == {"ok", "mkdir_failed", "write_failed"}

\* the result of saving the image under dir
SaveImage(dir, save) ==
    CASE save = "ok" -> PathResult(dir)
      [] save = "mkdir_failed" -> ErrorResult("failed to create upload directory", "mkdir")
      [] save = "write_failed" -> ErrorResult("failed to save image", "write")

(* ---- GeminiClient.GenerateImage ---- *)
GeminiMaxAttempts == 3

\* what client.Models.GenerateContent comes back with
GeminiOutcomes == {"call_error", "no_candidates", "no_image_data", "image"}

\* the lastErr recorded for a failed attempt
GeminiAttemptErr(out) ==
    CASE out = "call_error" -> "call_error"
      [] out = "no_candidates" -> "no candidates generated"
      [] out = "no_image_data" -> "no image data in response"

\* a loop that makes one attempt too many
GeminiLoopOneMore(attempt) == attempt <= GeminiMaxAttempts + 1

\* for attempt := 1; attempt <= 3; attempt++
GeminiLoopContinues(attempt) == attempt <= GeminiMaxAttempts

\* the credential check and genai.NewClient
GeminiBegin ==
    /\ imgPc = "called"
    /\ imgCall.provider = "gemini"
    /\ IF CredentialMissing(imgCall.key)
       THEN /\ imgResult' = ErrorResult("google_api_key is not set", "none")
            /\ imgPc' = "done"
            /\ UNCHANGED imgAttempt
       ELSE \/ /\ imgResult' = ErrorResult("failed to create genai client", "client")
               /\ imgPc' = "done"
               /\ UNCHANGED imgAttempt
            \/ /\ imgAttempt' = 1
               /\ imgPc' = "loop"
               /\ UNCHANGED imgResult
    /\ UNCHANGED <<imgCall, imgOutcomes, imgLastErr>>
    /\ UNCHANGED notImageVars

\* one iteration: (the backoff sleep,) GenerateContent, the checks of the
\* response and, with image data, the save and the return
GeminiAttempt ==
    /\ imgPc = "loop"
    /\ GeminiLoopContinues(imgAttempt)
    /\ \E out \in GeminiOutcomes :
         /\ imgOutcomes' = Append(imgOutcomes, out)
         /\ IF out = "image"
            THEN /\ \E save \in SaveOutcomes :
                      imgResult' = SaveImage("./data/uploads", save)
                 /\ imgPc' = "done"
                 /\ UNCHANGED <<imgAttempt, imgLastErr>>
            ELSE /\ imgLastErr' = GeminiAttemptErr(out)
                 /\ imgAttempt' = imgAttempt + 1
                 /\ UNCHANGED <<imgPc, imgResult>>
    /\ UNCHANGED imgCall
    /\ UNCHANGED notImageVars

\* the loop is over: the terminal error wraps lastErr
GeminiExhausted ==
    /\ imgPc = "loop"
    /\ ~GeminiLoopContinues(imgAttempt)
    /\ imgResult' = ErrorResult("failed to generate image after 3 attempts", imgLastErr)
    /\ imgPc' = "done"
    /\ UNCHANGED <<imgCall, imgAttempt, imgOutcomes, imgLastErr>>
    /\ UNCHANGED notImageVars

(* ---- GLMImageClient.GenerateImage and ZImageClient.GenerateImage ---- *)
\* what the POST to the generation endpoint comes back with
HTTPOutcomes == {"transport_error", "decode_error", "api_error", "no_url", "url"}

\* what the GET of the image URL comes back with
DownloadOutcomes == {"transport_error", "read_error", "bad_status", "ok"}

\* the error returned for a failed generation request
HTTPErr(out) ==
    CASE out = "transport_error" -> "failed to send request"
      [] out = "decode_error" -> "failed to decode response"
      [] out = "api_error" -> "API error"
      [] out = "no_url" -> "no image URL in response"

\* the error returned for a failed download
DownloadErr(down) ==
    CASE down = "transport_error" -> "failed to download image"
      [] down = "read_error" -> "failed to read image data"
      [] down = "bad_status" -> "failed to download image, status"

\* the directory the image is saved under
UploadDir(userID) ==
    IF userID # "" THEN "./data/uploads/<userID>" ELSE "./data/uploads"

\* the request, the checks of the response, the download and the save: each
\* failure returns at once
RequestDownloadSave(userID) ==
    \E out \in HTTPOutcomes :
      /\ imgOutcomes' = Append(imgOutcomes, out)
      /\ IF out # "url"
         THEN imgResult' = ErrorResult(HTTPErr(out), out)
         ELSE \E down \in DownloadOutcomes :
                IF down # "ok"
                THEN imgResult' = ErrorResult(DownloadErr(down), "download")
                ELSE \E save \in SaveOutcomes :
                       imgResult' = SaveImage(UploadDir(userID), save)

\* GLMImageClient.generateToken: the key must be id.secret
GLMTokenOk(key) == key = "id.secret"

GLMGenerateImage ==
    /\ imgPc = "called"
    /\ imgCall.provider = "glm"
    /\ IF CredentialMissing(imgCall.key)
       THEN /\ imgResult' = ErrorResult("glm_api_key is not set", "none")
            /\ UNCHANGED imgOutcomes
       ELSE IF ~GLMTokenOk(imgCall.key)
       THEN /\ imgResult' = ErrorResult("failed to generate token", "token")
            /\ UNCHANGED imgOutcomes
       ELSE RequestDownloadSave(imgCall.userID)
    /\ imgPc' = "done"
    /\ UNCHANGED <<imgCall, imgAttempt, imgLastErr>>
    /\ UNCHANGED notImageVars

ZImageGenerateImage ==
    /\ imgPc = "called"
    /\ imgCall.provider = "zimage"
    /\ IF CredentialMissing(imgCall.key)
       THEN /\ imgResult' = ErrorResult("zimage_api_key is not set", "none")
            /\ UNCHANGED imgOutcomes
       ELSE RequestDownloadSave(imgCall.userID)
    /\ imgPc' = "done"
    /\ UNCHANGED <<imgCall, imgAttempt, imgLastErr>>
    /\ UNCHANGED notImageVars

(***************************************************************************)
(* CachedStore (cache.go is not among the sources: the wrapper is modelled *)
(* from the component contract; NewServer wires it with its ttl).          *)
(***************************************************************************)
\* the logical keys of two cached reads
CacheKeys == {"notebook:n1", "sources:n1"}

NoEntry == [present |-> FALSE, value |-> 0, insertedAt |-> 0]
NoOp == [kind |-> "none", key |-> "none", value |-> 0, roundTrip |-> FALSE,
         age |-> -1, at |-> 0, stamp |-> 0, afterWrite |-> FALSE]

CacheEmpty ==
    /\ store = [k \in CacheKeys |-> 0]
    /\ cache = [k \in CacheKeys |-> NoEntry]
    /\ now = 0
    /\ preWrite = [k \in CacheKeys |-> -1]
    /\ lastOp = NoOp

\* a ttl one minute longer than the one wired
ServerTTLLonger == 5 + 1

\* NewCachedStore(baseStore, 5*time.Minute), in minutes
ServerTTL == 5

\* an entry is served only while now - insertedAt < ttl
EntryLive(e, t, ttl) == e.present /\ t - e.insertedAt < ttl

\* minutes since the entry was fetched; -1 without an entry
EntryAge(e, t) == IF e.present THEN t - e.insertedAt ELSE -1

\* a write that leaves the entry of its key in place
KeepEntry(c, k) == c

\* a write drops the entry of its key
Invalidate(c, k) == [c EXCEPT ![k] = NoEntry]

\* the last operation was a mutation of k
JustWritten(k) == lastOp.kind = "write" /\ lastOp.key = k

\* a read method of the wrapper (GetNotebook, ListSources, ...)
CachedRead(k) ==
    LET e == cache[k] IN
    /\ IF EntryLive(e, now, ServerTTL)
       THEN /\ lastOp' = [kind |-> "read", key |-> k, value |-> e.value,
                          roundTrip |-> FALSE, age |-> EntryAge(e, now),
                          at |-> now, stamp |-> e.insertedAt,
                          afterWrite |-> JustWritten(k)]
            /\ UNCHANGED cache
       ELSE /\ cache' = [cache EXCEPT ![k] =
                           [present |-> TRUE, value |-> store[k], insertedAt |-> now]]
            /\ lastOp' = [kind |-> "read", key |-> k, value |-> store[k],
                          roundTrip |-> TRUE, age |-> EntryAge(e, now),
                          at |-> now, stamp |-> now,
                          afterWrite |-> JustWritten(k)]
    /\ UNCHANGED <<store, now, preWrite>>
    /\ UNCHANGED notCacheVars

\* a create, update or delete method of the wrapper: the store mutation, then
\* the invalidation
CachedWrite(k) ==
    /\ store[k] < MaxVersion
    /\ store' = [store EXCEPT ![k] = @ + 1]
    /\ cache' = Invalidate(cache, k)
    /\ preWrite' = [preWrite EXCEPT ![k] = IF cache[k].present THEN cache[k].value ELSE -1]
    /\ lastOp' = [NoOp EXCEPT !.kind = "write", !.key = k, !.value = store[k] + 1,
                              !.roundTrip = TRUE, !.at = now]
    /\ UNCHANGED now
    /\ UNCHANGED notCacheVars

\* a minute passes
Tick ==
    /\ now < MaxTime
    /\ now' = now + 1
    /\ UNCHANGED <<store, cache, preWrite, lastOp>>
    /\ UNCHANGED notCacheVars

(***************************************************************************)
(* Agent.ParsePPTSlides, on texts made of tokens                           *)
(***************************************************************************)
\* "H"  a heading "Slide 1"          "HH" a Markdown heading "## Slide 1"
\* "NL" a newline                    "x"  other text, without a newline
\* "MG" the marker "// 叙事目标"      "ME" the marker "// NARRATIVE GOAL"
\* "KC" the text "关键内容"           "ng" the text "Narrative Goal"
\* "SS" "<STYLE_INSTRUCTIONS>"       "SE" "</STYLE_INSTRUCTIONS>"
Tokens == {"H", "HH", "NL", "x", "MG", "ME", "ng", "KC", "SS", "SE"}

\* the texts of at most n tokens
RECURSIVE TokenStrings(_)
TokenStrings(n) ==
    IF n = 0 THEN {<<>>}
    ELSE LET shorter == TokenStrings(n - 1)
         IN shorter \cup {Append(t, tok) : t \in {u \in shorter : Len(u) = n - 1},
                                           tok \in Tokens}

\* strings.Index: the first position of tok in c, 0 when there is none
Index(c, tok) ==
    IF \E i \in DOMAIN c : c[i] = tok
    THEN CHOOSE i \in DOMAIN c : c[i] = tok /\ \A j \in 1..(i - 1) : c[j] # tok
    ELSE 0

\* strings.Contains
Contains(c, tok) == Index(c, tok) # 0

\* step 1: the text between the style tags
ExtractStyle(c) ==
    LET styleStart == Index(c, "SS")
        styleEnd == Index(c, "SE")
    IN IF styleStart # 0 /\ styleEnd > styleStart
       THEN SubSeq(c, styleStart + 1, styleEnd - 1)
       ELSE <<>>

\* (?m)^ : position i is the start of a line
LineStart(c, i) == i = 1 \/ c[i - 1] = "NL"

\* the regexp matches from position i: at a line start, a heading, or blank
\* lines (\s*) that lead to a Markdown heading (#{1,6})
HeadingStartsAt(c, i) ==
    /\ LineStart(c, i)
    /\ \/ c[i] \in {"H", "HH"}
       \/ /\ c[i] = "NL"
          /\ \E j \in (i + 1)..Len(c) :
               c[j] = "HH" /\ \A k \in i..(j - 1) : c[k] = "NL"

\* the first position from i on that is not a newline, Len(c) + 1 when none
NextNonNL(c, i) ==
    IF \E j \in i..Len(c) : c[j] # "NL"
    THEN CHOOSE j \in i..Len(c) : c[j] # "NL" /\ \A k \in i..(j - 1) : c[k] = "NL"
    ELSE Len(c) + 1

\* .*$ : the last position of the line that position i is on
LineEnd(c, i) ==
    CHOOSE j \in i..Len(c) :
      /\ \A k \in i..j : c[k] # "NL"
      /\ j = Len(c) \/ c[j + 1] = "NL"

\* where the match that starts at i ends: after the heading, [:\s]* takes the
\* newlines that follow, and .* the line it then stands on
MatchEnd(c, i) ==
    LET heading == NextNonNL(c, i)
        rest == NextNonNL(c, heading + 1)
    IN IF rest > Len(c) THEN Len(c) ELSE LineEnd(c, rest)

\* re.FindAllStringIndex: the starts of the successive matches from position from
RECURSIVE HeadingMatches(_, _)
HeadingMatches(c, from) ==
    IF \E i \in from..Len(c) : HeadingStartsAt(c, i)
    THEN LET start == CHOOSE i \in from..Len(c) :
                        /\ HeadingStartsAt(c, i)
                        /\ \A j \in from..(i - 1) : ~HeadingStartsAt(c, j)
         IN <<start>> \o HeadingMatches(c, MatchEnd(c, start) + 1)
    ELSE <<>>

\* a validation that compares the region as it is written: "narrative goal"
\* is found in no token, the two localized markers have no letter case
SectionMarkerAsWritten(region) == \E i \in DOMAIN region : region[i] \in {"MG", "KC"}

\* the validation of a region: lowered (strings.ToLower), it holds one of the
\* section markers
HasSectionMarker(region) ==
    \E i \in DOMAIN region : region[i] \in {"MG", "ME", "ng", "KC"}

\* the pieces of c that start at the positions starts and run to the next one
Pieces(c, starts) ==
    [k \in 1..Len(starts) |->
       SubSeq(c, starts[k], IF k < Len(starts) THEN starts[k + 1] - 1 ELSE Len(c))]

\* regions that all run to the end of the text
HeadingSlidesToEnd(c, style) ==
    LET starts == HeadingMatches(c, 1)
        Accepted(slide) == HasSectionMarker(slide.Content)
    IN SelectSeq([k \in DOMAIN starts |->
                    [Style |-> style, Content |-> SubSeq(c, starts[k], Len(c))]],
                 Accepted)

\* step 2: the regions from one heading match to the next that pass validation
HeadingSlides(c, style) ==
    LET regions == Pieces(c, HeadingMatches(c, 1))
        Accepted(slide) == HasSectionMarker(slide.Content)
    IN SelectSeq([k \in DOMAIN regions |-> [Style |-> style, Content |-> regions[k]]],
                 Accepted)

\* the positions of tok in c, in order
RECURSIVE Positions(_, _, _)
Positions(c, tok, from) ==
    IF from > Len(c) THEN <<>>
    ELSE IF c[from] = tok THEN <<from>> \o Positions(c, tok, from + 1)
    ELSE Positions(c, tok, from + 1)

\* a split whose loop starts at parts[0], the text before the first marker
MarkerSlidesFromFirstPart(c, style) ==
    LET marker == IF Contains(c, "MG") THEN "MG" ELSE "ME"
        starts == Positions(c, marker, 1)
        parts == Pieces(c, starts)
    IN IF starts = <<>> THEN <<>>
       ELSE <<[Style |-> style, Content |-> <<marker>> \o SubSeq(c, 1, starts[1] - 1)]>>
              \o [k \in DOMAIN parts |-> [Style |-> style, Content |-> parts[k]]]

\* step 3: the split on the narrative-goal marker
MarkerSlides(c, style) ==
    LET marker == IF Contains(c, "MG") THEN "MG" ELSE "ME"
        parts == Pieces(c, Positions(c, marker, 1))
    IN [k \in DOMAIN parts |-> [Style |-> style, Content |-> parts[k]]]

\* a parser without the last resort
NoFinalFallback(slides, style, c) == slides

\* the final fallback: the whole text as one slide
FinalFallback(slides, style, c) ==
    IF Len(slides) = 0 THEN <<[Style |-> style, Content |-> c]>> ELSE slides

ParsePPTSlides(c) ==
    LET style == ExtractStyle(c)
        byHeading == HeadingSlides(c, style)
        slides == IF Len(byHeading) = 0 THEN MarkerSlides(c, style) ELSE byHeading
    IN FinalFallback(slides, style, c)

(***************************************************************************)
(* Server.handleTransform: the ppt block                                   *)
(***************************************************************************)
NoMetadata == [image_error |-> FALSE, slides |-> "unset"]

PPTIdle ==
    /\ pptPc = "start"
    /\ pptContent = <<>>
    /\ pptSlides = <<>>
    /\ pptIdx = 0
    /\ pptCalls = <<>>
    /\ slideURLs = <<>>
    /\ metadata = NoMetadata

\* n times the tokens of unit
RECURSIVE Repeat(_, _)
Repeat(unit, n) == IF n = 0 THEN <<>> ELSE unit \o Repeat(unit, n - 1)

\* the generated decks: n slides under headings, n slides told apart by the
\* marker only, or a text without structure
Decks ==
    {Repeat(<<"H", "x", "NL", "MG", "x", "NL">>, n) : n \in 0..MaxDeck}
      \cup {<<"x", "NL">> \o Repeat(<<"ME", "x", "NL">>, n) : n \in 0..MaxDeck}
      \cup {<<"SS", "x", "SE", "NL">> \o Repeat(<<"H", "x", "NL", "KC", "NL">>, n) :
              n \in 0..MaxDeck}
      \cup {<<"HH", "NL", "KC", "NL">>, <<"H", "NL", "H", "NL", "MG">>}

SlideCap == 10

\* a handler that goes by the limit its message states
OverLimitAsLogged(slides) == Len(slides) > 20

\* if len(slides) > 10
OverLimit(slides) == Len(slides) > SlideCap

\* slides := s.agent.ParsePPTSlides(response.Content), and the check of the cap
PPTParse ==
    /\ pptPc = "start"
    /\ pptSlides' = ParsePPTSlides(pptContent)
    /\ IF OverLimit(pptSlides')
       THEN /\ metadata' = [metadata EXCEPT !.image_error = TRUE]
            /\ pptPc' = "done"
            /\ UNCHANGED pptIdx
       ELSE /\ pptIdx' = 1
            /\ pptPc' = "loop"
            /\ UNCHANGED metadata
    /\ UNCHANGED <<pptContent, pptCalls, slideURLs>>
    /\ UNCHANGED notPPTVars

\* a loop that gives up at the first slide whose image fails
BreakOnSlideError(i, n, ok) == IF ok THEN i + 1 ELSE n + 1

\* for i, slide := range slides: on an error, golog.Errorf and continue
NextSlide(i, n, ok) == i + 1

\* one iteration of the loop over slides: GenerateImage, and on an error continue
PPTSlideImage ==
    /\ pptPc = "loop"
    /\ pptIdx <= Len(pptSlides)
    /\ \E ok \in BOOLEAN :
         /\ pptCalls' = Append(pptCalls, [slide |-> pptIdx, ok |-> ok])
         /\ slideURLs' = IF ok THEN Append(slideURLs, pptIdx) ELSE slideURLs
         /\ pptIdx' = NextSlide(pptIdx, Len(pptSlides), ok)
    /\ UNCHANGED <<pptPc, pptContent, pptSlides, metadata>>
    /\ UNCHANGED notPPTVars

\* metadata["slides"] = slideURLs
PPTLoopDone ==
    /\ pptPc = "loop"
    /\ pptIdx > Len(pptSlides)
    /\ metadata' = [metadata EXCEPT !.slides = slideURLs]
    /\ pptPc' = "done"
    /\ UNCHANGED <<pptContent, pptSlides, pptIdx, pptCalls, slideURLs>>
    /\ UNCHANGED notPPTVars

\* ParsePPTSlides called on its own
Parse ==
    /\ pptPc = "start"
    /\ pptSlides' = ParsePPTSlides(pptContent)
    /\ pptPc' = "parsed"
    /\ UNCHANGED <<pptContent, pptIdx, pptCalls, slideURLs, metadata>>
    /\ UNCHANGED notPPTVars


(***************************************************************************)
(* Server.handleTransform and Agent.GenerateTransformation: the sources    *)
(* of a transformation, the context built from them, the note saved        *)
(***************************************************************************)
\* a content is a sequence of runs [byte, count] of equal bytes
Run(byte, count) == [byte |-> byte, count |-> count]

DefaultLimit == 100000

\* the contents of a stored source: empty, short, and around the default limit
TrContents ==
    { <<>>,
      <<Run("a", 1)>>,
      <<Run("a", 2), Run("b", 1)>>,
      <<Run("a", 3), Run("b", 2)>>,
      <<Run("a", DefaultLimit)>>,
      <<Run("a", DefaultLimit), Run("b", 1)>> }

\* len(src.Content)
RECURSIVE ByteLen(_)
ByteLen(content) ==
    IF content = <<>> THEN 0 ELSE Head(content).count + ByteLen(Tail(content))

\* src.Content[:n], for n <= len(src.Content)
RECURSIVE Prefix(_, _)
Prefix(content, n) ==
    IF n = 0 \/ content = <<>> THEN <<>>
    ELSE IF Head(content).count <= n
         THEN <<Head(content)>> \o Prefix(Tail(content), n - Head(content).count)
         ELSE <<Run(Head(content).byte, n)>>

\* the sources table of the notebook: rows [ID, Name, Type, Content]
StoredSource(i, content) ==
    [ID |-> i, Name |-> <<"name", i>>,
     Type |-> IF i = 1 THEN "file" ELSE "url", Content |-> content]

RECURSIVE NotebookTables(_)
NotebookTables(n) ==
    IF n = 0 THEN {<<>>}
    ELSE LET shorter == NotebookTables(n - 1)
         IN shorter \cup {Append(t, StoredSource(n, c)) :
                            t \in {u \in shorter : Len(u) = n - 1}, c \in TrContents}

\* req.SourceIDs as sent: none, or some ids, stored in the notebook or not
RequestedLists == UNION {Picks(1..MaxCtxSources, n) : n \in 0..MaxCtxSources}

\* the configured MaxContextLength
ConfiguredLimits == -1..MaxCtxLimit

NoTransformResponse == [status |-> "none", Sources |-> <<>>]
NoNote == [saved |-> FALSE, SourceIDs |-> <<>>]

TransformIdle ==
    /\ trPc = "idle"
    /\ trCfg = 0
    /\ trRequested = <<>>
    /\ trSources = <<>>
    /\ trIdx = 0
    /\ sourceContext = <<>>
    /\ trResponse = NoTransformResponse
    /\ trNote = NoNote

\* the sources filtered by the ids asked for, in the order of the table
FilterSources(stored, requested) ==
    LET Asked(src) == \E k \in DOMAIN requested : requested[k] = src.ID
    IN SelectSeq(stored, Asked)

\* handleTransform up to the call of GenerateTransformation: the sources
\* listed, filtered by req.SourceIDs when ids are given; otherwise all are used
\* and req.SourceIDs is filled with their ids; no source left: 400
TransformSelect(cfg, stored, requested) ==
    /\ trPc = "idle"
    /\ trCfg' = cfg
    /\ LET used == IF Len(requested) > 0 THEN FilterSources(stored, requested)
                   ELSE stored
           ids == IF Len(requested) > 0 THEN requested
                  ELSE [i \in DOMAIN stored |-> stored[i].ID]
       IN /\ trSources' = used
          /\ trRequested' = ids
          /\ IF Len(used) = 0
             THEN /\ trResponse' = [status |-> "bad_request", Sources |-> <<>>]
                  /\ trPc' = "done"
                  /\ UNCHANGED trIdx
             ELSE /\ trIdx' = 1
                  /\ trPc' = "build"
                  /\ UNCHANGED trResponse
    /\ UNCHANGED <<sourceContext, trNote>>
    /\ UNCHANGED notTrVars

\* a limit applied as a length the content has to stay below
FitsBelow(n, limit) == n < limit

\* len(src.Content) <= limit
Fits(n, limit) == n <= limit

\* limit := a.cfg.MaxContextLength; if limit <= 0 { limit = 100000 }
EffectiveLimit(cfg) == IF cfg <= 0 THEN DefaultLimit ELSE cfg

Piece(kind, text, total, name, type) ==
    [kind |-> kind, text |-> text, total |-> total, name |-> name, type |-> type]

\* what the loop body writes for one source after its header line
SourceBody(src, limit) ==
    IF src.Content # <<>>
    THEN IF Fits(ByteLen(src.Content), limit)
         THEN <<Piece("content", src.Content, 0, "", "")>>
         ELSE <<Piece("content", Prefix(src.Content, limit), 0, "", ""),
                Piece("truncated", <<>>, ByteLen(src.Content), "", "")>>
    ELSE <<Piece("placeholder", <<>>, 0, src.Name, src.Type)>>

\* one iteration of the loop over sources in GenerateTransformation
BuildContextStep ==
    /\ trPc = "build"
    /\ trIdx <= Len(trSources)
    /\ sourceContext' =
         Append(sourceContext,
                [header |-> <<trIdx, trSources[trIdx].Name>>,
                 body |-> SourceBody(trSources[trIdx], EffectiveLimit(trCfg))])
    /\ trIdx' = trIdx + 1
    /\ UNCHANGED <<trPc, trCfg, trRequested, trSources, trResponse, trNote>>
    /\ UNCHANGED notTrVars

\* sourceSummaries: one per source handed in
TransformSummaries(used) ==
    [i \in DOMAIN used |->
       [ID |-> used[i].ID, Name |-> used[i].Name, Type |-> used[i].Type]]

\* the generation, the response, and the note handleTransform saves from it
TransformRespond ==
    /\ trPc = "build"
    /\ trIdx > Len(trSources)
    /\ \E genOk \in BOOLEAN :
         IF genOk
         THEN /\ trResponse' = [status |-> "ok", Sources |-> TransformSummaries(trSources)]
              /\ \E saved \in BOOLEAN :
                   trNote' = IF saved THEN [saved |-> TRUE, SourceIDs |-> trRequested]
                             ELSE NoNote
         ELSE /\ trResponse' = [status |-> "error", Sources |-> <<>>]
              /\ UNCHANGED trNote
    /\ trPc' = "done"
    /\ UNCHANGED <<trCfg, trRequested, trSources, trIdx, sourceContext>>
    /\ UNCHANGED notTrVars

\* the handler has answered
TransformReturn ==
    /\ trPc = "done"
    /\ trPc' = "idle"
    /\ trCfg' = 0
    /\ trRequested' = <<>>
    /\ trSources' = <<>>
    /\ trIdx' = 0
    /\ sourceContext' = <<>>
    /\ trResponse' = NoTransformResponse
    /\ trNote' = NoNote
    /\ UNCHANGED notTrVars


(***************************************************************************)
(* GenerateTextWithModel: GeminiClient, GLMImageClient, ZImageClient       *)
(***************************************************************************)
TextModels == {"gemini-3-flash-preview", "other-model"}
Prompts == {"p1", "p2"}

NoTextCall == [provider |-> "none", key |-> "", model |-> "", prompt |-> ""]
NoTextResponse == [kind |-> "none", parts |-> <<>>]
NoTextResult == [text |-> <<>>, err |-> "none"]

TextIdle ==
    /\ txtPc = "idle"
    /\ txtCall = NoTextCall
    /\ txtRequests = 0
    /\ txtResponse = NoTextResponse
    /\ txtResult = NoTextResult

\* part.Text of one part: empty, or some text
PartTexts == {<<>>, <<"a">>, <<"b">>}

\* the Parts of the first candidate: at most n parts
RECURSIVE PartLists(_)
PartLists(n) ==
    IF n = 0 THEN {<<>>}
    ELSE LET shorter == PartLists(n - 1)
         IN shorter \cup {Append(t, part) : t \in {u \in shorter : Len(u) = n - 1},
                                            part \in PartTexts}

\* what client.Models.GenerateContent comes back with
TextResponses ==
    {[kind |-> k, parts |-> <<>>] : k \in {"call_error", "no_candidates", "nil_content"}}
      \cup {[kind |-> "candidate", parts |-> ps] : ps \in PartLists(MaxParts)}

\* the loop over Parts: the non-empty texts, written one after another
RECURSIVE TextContent(_)
TextContent(parts) ==
    IF parts = <<>> THEN <<>> ELSE Head(parts) \o TextContent(Tail(parts))

\* a client that returns whatever text it has collected
TextAsIs(text) == [text |-> text, err |-> "none"]

\* result := textContent.String(); if result == "" { return "", error }
TextOrError(text) ==
    IF text = <<>> THEN [text |-> <<>>, err |-> "empty response from model"]
    ELSE [text |-> text, err |-> "none"]

\* a caller's provider.GenerateTextWithModel(ctx, prompt, model)
GenerateTextWithModel(provider, key, model, prompt) ==
    /\ txtPc = "idle"
    /\ txtPc' = "called"
    /\ txtCall' = [provider |-> provider, key |-> key, model |-> model, prompt |-> prompt]
    /\ UNCHANGED <<txtRequests, txtResponse, txtResult>>
    /\ UNCHANGED notTextVars

\* GeminiClient: the credential check and genai.NewClient
GeminiTextBegin ==
    /\ txtPc = "called"
    /\ txtCall.provider = "gemini"
    /\ IF CredentialMissing(txtCall.key)
       THEN /\ txtResult' = [text |-> <<>>, err |-> "google_api_key is not set"]
            /\ txtPc' = "done"
       ELSE \/ /\ txtResult' = [text |-> <<>>, err |-> "failed to create genai client"]
               /\ txtPc' = "done"
            \/ /\ txtPc' = "request"
               /\ UNCHANGED txtResult
    /\ UNCHANGED <<txtCall, txtRequests, txtResponse>>
    /\ UNCHANGED notTextVars

\* a client that repeats a failed request, as GenerateImage does, up to
\* GeminiMaxAttempts requests
TextRequestRetried(err, made) ==
    IF err # "none" /\ made < GeminiMaxAttempts THEN "request" ELSE "done"

\* every path after client.Models.GenerateContent is a return
AfterTextRequest(err, made) == "done"

\* GeminiClient: the one GenerateContent call and the checks of its response
GeminiTextRequest ==
    /\ txtPc = "request"
    /\ txtRequests' = txtRequests + 1
    /\ \E response \in TextResponses :
         /\ txtResponse' = response
         /\ txtResult' =
              CASE response.kind = "call_error" ->
                     [text |-> <<>>, err |-> "failed to generate gemini text"]
                [] response.kind \in {"no_candidates", "nil_content"} ->
                     [text |-> <<>>, err |-> "no text generated"]
                [] response.kind = "candidate" /\ Len(response.parts) = 0 ->
                     [text |-> <<>>, err |-> "no text generated"]
                [] OTHER -> TextOrError(TextContent(response.parts))
    /\ txtPc' = AfterTextRequest(txtResult'.err, txtRequests')
    /\ UNCHANGED txtCall
    /\ UNCHANGED notTextVars

\* GLMImageClient.GenerateTextWithModel
GLMGenerateText ==
    /\ txtPc = "called"
    /\ txtCall.provider = "glm"
    /\ txtResult' = [text |-> <<>>, err |-> "GLM-Image client does not support text generation"]
    /\ txtPc' = "done"
    /\ UNCHANGED <<txtCall, txtRequests, txtResponse>>
    /\ UNCHANGED notTextVars

\* ZImageClient.GenerateTextWithModel
ZImageGenerateText ==
    /\ txtPc = "called"
    /\ txtCall.provider = "zimage"
    /\ txtResult' = [text |-> <<>>, err |-> "Z-Image client does not support text generation"]
    /\ txtPc' = "done"
    /\ UNCHANGED <<txtCall, txtRequests, txtResponse>>
    /\ UNCHANGED notTextVars

\* the call has returned to its caller
TextReturn ==
    /\ txtPc = "done"
    /\ txtPc' = "idle"
    /\ txtCall' = NoTextCall
    /\ txtRequests' = 0
    /\ txtResponse' = NoTextResponse
    /\ txtResult' = NoTextResult
    /\ UNCHANGED notTextVars


(***************************************************************************)
(* The contexts of a chat or transform request                             *)
(***************************************************************************)
RequestKinds == {"chat", "send", "summary", "ppt", "infograph", "insight"}

\* the context a context is derived from ("none": a root).  "request" is
\* c.Request.Context(); the handlers start from ctx := context.Background();
\* the 300 s timeouts derive from the handler's ctx; callDeepInsight derives
\* its 10 min timeout from context.Background()
CtxParent ==
    [request |-> "none", background |-> "none",
     handler |-> "background",
     genTimeout |-> "handler", textTimeout |-> "handler", imageTimeout |-> "handler",
     deepInsightTimeout |-> "background"]

\* the generation steps of a request, each with the context it runs under
Plan(kind) ==
    CASE kind \in {"chat", "send", "summary"} ->
           <<[call |-> "GenerateFromSinglePrompt", ctx |-> "genTimeout"]>>
      [] kind = "ppt" ->
           <<[call |-> "GenerateTextWithModel", ctx |-> "textTimeout"],
             [call |-> "GenerateImage", ctx |-> "imageTimeout"]>>
      [] kind = "infograph" ->
           <<[call |-> "GenerateFromSinglePrompt", ctx |-> "genTimeout"],
             [call |-> "GenerateImage", ctx |-> "imageTimeout"]>>
      [] kind = "insight" ->
           <<[call |-> "GenerateFromSinglePrompt", ctx |-> "genTimeout"],
             [call |-> "DeepInsight", ctx |-> "deepInsightTimeout"],
             [call |-> "cat", ctx |-> "deepInsightTimeout"]>>

\* ctx.Done() is closed: ctx or one of the contexts it derives from is cancelled
RECURSIVE CtxDone(_, _)
CtxDone(ctx, cancelled) ==
    \/ ctx \in cancelled
    \/ CtxParent[ctx] # "none" /\ CtxDone(CtxParent[ctx], cancelled)

RequestIdle ==
    /\ hcPc = "idle"
    /\ hcKind = "none"
    /\ hcStep = 0
    /\ hcCancelled = {}
    /\ hcOutcome = "none"

\* a handler is entered and reaches its first generation step
HandlerStart(kind) ==
    /\ hcPc = "idle"
    /\ hcPc' = "call"
    /\ hcKind' = kind
    /\ hcStep' = 1
    /\ UNCHANGED <<hcCancelled, hcOutcome>>
    /\ UNCHANGED notCancelVars

\* the client goes away: net/http cancels the request's context
ClientDisconnect ==
    /\ hcPc = "call"
    /\ "request" \notin hcCancelled
    /\ hcCancelled' = hcCancelled \cup {"request"}
    /\ UNCHANGED <<hcPc, hcKind, hcStep, hcOutcome>>
    /\ UNCHANGED notCancelVars

\* the timeout of the step in flight expires
DeadlineExceeded ==
    /\ hcPc = "call"
    /\ Plan(hcKind)[hcStep].ctx \notin hcCancelled
    /\ hcCancelled' = hcCancelled \cup {Plan(hcKind)[hcStep].ctx}
    /\ UNCHANGED <<hcPc, hcKind, hcStep, hcOutcome>>
    /\ UNCHANGED notCancelVars

\* the call in flight sees its context done and returns the error
StepAborts ==
    /\ hcPc = "call"
    /\ CtxDone(Plan(hcKind)[hcStep].ctx, hcCancelled)
    /\ hcOutcome' = <<"aborted", hcStep>>
    /\ hcPc' = "done"
    /\ UNCHANGED <<hcKind, hcStep, hcCancelled>>
    /\ UNCHANGED notCancelVars

\* the call in flight returns its result; the next step starts, if any
StepCompletes ==
    /\ hcPc = "call"
    /\ IF hcStep < Len(Plan(hcKind))
       THEN /\ hcStep' = hcStep + 1
            /\ UNCHANGED <<hcPc, hcOutcome>>
       ELSE /\ hcOutcome' = "ok"
            /\ hcPc' = "done"
            /\ UNCHANGED hcStep
    /\ UNCHANGED <<hcKind, hcCancelled>>
    /\ UNCHANGED notCancelVars

\* the handler returns
HandlerReturn ==
    /\ hcPc = "done"
    /\ hcPc' = "idle"
    /\ hcKind' = "none"
    /\ hcStep' = 0
    /\ hcCancelled' = {}
    /\ hcOutcome' = "none"
    /\ UNCHANGED notCancelVars


(***************************************************************************)
(* Agent.callDeepInsight                                                   *)
(***************************************************************************)
\* the names ./tmp/deepinsight_report_<second>.md
ReportNames == 0..MaxClock

NoFile == -1
NoReport == [status |-> "none", report |-> NoProc]

InsightIdle ==
    /\ diPc = [p \in Procs |-> "idle"]
    /\ diFile = [p \in Procs |-> NoFile]
    /\ diResult = [p \in Procs |-> NoReport]
    /\ diClock = 0
    /\ tmpFiles = [f \in ReportNames |-> NoProc]

\* a second passes
ClockTick ==
    /\ diClock < MaxClock
    /\ diClock' = diClock + 1
    /\ UNCHANGED <<diPc, diFile, diResult, tmpFiles>>
    /\ UNCHANGED notInsightVars

\* tmpFile := "./tmp/deepinsight_report_" + time.Now().Unix() + ".md"
DeepInsightCall(p) ==
    /\ diPc[p] = "idle"
    /\ diFile' = [diFile EXCEPT ![p] = diClock]
    /\ diPc' = [diPc EXCEPT ![p] = "exec"]
    /\ UNCHANGED <<diResult, diClock, tmpFiles>>
    /\ UNCHANGED notInsightVars

\* ./DeepInsight -o tmpFile summary: it writes the report; when it fails or
\* times out it may or may not have written the file; on an error return
DeepInsightExec(p) ==
    /\ diPc[p] = "exec"
    /\ \E ok \in BOOLEAN, written \in BOOLEAN :
         /\ ok => written
         /\ tmpFiles' = IF written THEN [tmpFiles EXCEPT ![diFile[p]] = p] ELSE tmpFiles
         /\ IF ok
            THEN /\ diPc' = [diPc EXCEPT ![p] = "cat"]
                 /\ UNCHANGED diResult
            ELSE /\ diResult' = [diResult EXCEPT ![p] =
                                   [status |-> "DeepInsight command failed", report |-> NoProc]]
                 /\ diPc' = [diPc EXCEPT ![p] = "done"]
    /\ UNCHANGED <<diFile, diClock>>
    /\ UNCHANGED notInsightVars

\* /bin/cat tmpFile: on an error return
DeepInsightCat(p) ==
    /\ diPc[p] = "cat"
    /\ \E ok \in BOOLEAN :
         /\ ok => tmpFiles[diFile[p]] # NoProc
         /\ IF ok
            THEN /\ diResult' = [diResult EXCEPT ![p] =
                                   [status |-> "read", report |-> tmpFiles[diFile[p]]]]
                 /\ diPc' = [diPc EXCEPT ![p] = "rm"]
            ELSE /\ diResult' = [diResult EXCEPT ![p] =
                                   [status |-> "failed to read DeepInsight report",
                                    report |-> NoProc]]
                 /\ diPc' = [diPc EXCEPT ![p] = "done"]
    /\ UNCHANGED <<diFile, diClock, tmpFiles>>
    /\ UNCHANGED notInsightVars

\* /bin/rm -f tmpFile, and return reportContent, nil
DeepInsightRm(p) ==
    /\ diPc[p] = "rm"
    /\ tmpFiles' = [tmpFiles EXCEPT ![diFile[p]] = NoProc]
    /\ diResult' = [diResult EXCEPT ![p].status = "ok"]
    /\ diPc' = [diPc EXCEPT ![p] = "done"]
    /\ UNCHANGED <<diFile, diClock>>
    /\ UNCHANGED notInsightVars

\* the caller has the result
DeepInsightReturn(p) ==
    /\ diPc[p] = "done"
    /\ diPc' = [diPc EXCEPT ![p] = "idle"]
    /\ diFile' = [diFile EXCEPT ![p] = NoFile]
    /\ diResult' = [diResult EXCEPT ![p] = NoReport]
    /\ UNCHANGED <<diClock, tmpFiles>>
    /\ UNCHANGED notInsightVars


(***************************************************************************)
(* NewServer, NewAgent and getImageModelForProvider: which image client    *)
(* serves a request, and which model name it is given                      *)
(***************************************************************************)
\* cfg.ImageProvider: one of the three backends, or anything else
ImageProviders == Providers \cup {"other"}

\* the server is not constructed yet
NotStarted ==
    /\ cfgImageProvider = "unset"
    /\ agentProvider = "none"
    /\ imageModel = "none"

\* an agent whose client is the configured backend
NewAgentAsConfigured(imageProvider) ==
    IF imageProvider \in Providers THEN imageProvider ELSE "gemini"

\* NewAgent: provider := NewGeminiClient(cfg.GoogleAPIKey, llm)
NewAgent(imageProvider) == "gemini"

\* Server.getImageModelForProvider: the model configured for cfg.ImageProvider
getImageModelForProvider(imageProvider) ==
    CASE imageProvider = "glm" -> "GLMImageModel"
      [] imageProvider = "zimage" -> "ZImageModel"
      [] imageProvider = "gemini" -> "GeminiImageModel"
      [] OTHER -> "GeminiImageModel"

\* the backend a configured model name belongs to
ModelBackend(model) ==
    CASE model = "GLMImageModel" -> "glm"
      [] model = "ZImageModel" -> "zimage"
      [] OTHER -> "gemini"

\* NewServer(cfg): the agent is built by NewAgent, and kept
NewServer(imageProvider) ==
    /\ agentProvider = "none"
    /\ cfgImageProvider' = imageProvider
    /\ agentProvider' = NewAgent(imageProvider)
    /\ UNCHANGED imageModel
    /\ UNCHANGED notWiringVars

\* handleTransform: imageModel := s.getImageModelForProvider()
SelectImageModel ==
    /\ agentProvider # "none"
    /\ imgPc = "idle"
    /\ imageModel = "none"
    /\ imageModel' = getImageModelForProvider(cfgImageProvider)
    /\ UNCHANGED <<cfgImageProvider, agentProvider>>
    /\ UNCHANGED notWiringVars

\* handleTransform: s.agent.provider.GenerateImage(ctx, imageModel, prompt, userID)
ProviderGenerateImage(key, userID) ==
    /\ imageModel # "none"
    /\ GenerateImage(agentProvider, key, userID)

\* the image block of handleTransform is over
ImageBlockDone ==
    /\ imageModel # "none"
    /\ imgPc = "idle"
    /\ imageModel' = "none"
    /\ UNCHANGED <<cfgImageProvider, agentProvider>>
    /\ UNCHANGED notWiringVars


(***************************************************************************)
(* Agent.Chat: the chat history written into the prompt                    *)
(***************************************************************************)
Roles == {"user", "assistant"}

HistoryLimit == 10

HistoryIdle ==
    /\ chPc = "idle"
    /\ chHistory = <<>>
    /\ chIdx = 0
    /\ historyBuilder = <<>>

\* the sessions: n messages, the n-th being message n, the roles taking turns
\* from either side (a session may open with a stored answer)
Histories ==
    {[i \in 1..n |-> [Role |-> IF i % 2 = first THEN "user" ELSE "assistant",
                      Content |-> i]] :
        n \in 0..MaxHistory, first \in {0, 1}}

\* role := "用户"; if msg.Role == "assistant" { role = "助手" }
\* (the labels are written here as "assistant" for 助手 and "user" for 用户)
RoleLabel(role) == IF role = "assistant" THEN "assistant" ELSE "user"

\* Agent.Chat(ctx, notebookID, message, history), up to the history loop
ChatHistoryBegin(history) ==
    /\ chPc = "idle"
    /\ chHistory' = history
    /\ chIdx' = 1
    /\ historyBuilder' = <<>>
    /\ chPc' = "loop"
    /\ UNCHANGED notHistoryVars

\* for i, msg := range history: one line per message, while i < 10
HistoryStep ==
    /\ chPc = "loop"
    /\ chIdx <= Len(chHistory)
    /\ chIdx - 1 < HistoryLimit
    /\ historyBuilder' = Append(historyBuilder,
                                [label |-> RoleLabel(chHistory[chIdx].Role),
                                 Content |-> chHistory[chIdx].Content])
    /\ chIdx' = chIdx + 1
    /\ UNCHANGED <<chPc, chHistory>>
    /\ UNCHANGED notHistoryVars

\* the range is exhausted, or if i >= 10 { break }
HistoryLoopEnd ==
    /\ chPc = "loop"
    /\ chIdx > Len(chHistory) \/ chIdx - 1 >= HistoryLimit
    /\ chPc' = "done"
    /\ UNCHANGED <<chHistory, chIdx, historyBuilder>>
    /\ UNCHANGED notHistoryVars

\* Chat returns
ChatReturn ==
    /\ chPc = "done"
    /\ chPc' = "idle"
    /\ chHistory' = <<>>
    /\ chIdx' = 0
    /\ historyBuilder' = <<>>
    /\ UNCHANGED notHistoryVars


(***************************************************************************)
(* handleTransform: one note per type when the configuration says so       *)
(***************************************************************************)
NoteTypes == {"summary", "ppt"}

NotesIdle ==
    /\ cfgLoaded = FALSE
    /\ AllowMultipleNotesOfSameType = FALSE
    /\ notes = <<>>
    /\ tnPc = [p \in Procs |-> "idle"]
    /\ tnType = [p \in Procs |-> "none"]
    /\ tnStatus = [p \in Procs |-> 0]

\* Store.ListNotes(notebookID): the notes of the notebook at the time of the call
ListNotes == notes

\* Store.CreateNote: the row is added; the table accepts several notes of a
\* type, as it must when the configuration allows them
CreateNote(table, type) == Append(table, [Type |-> type])

\* for _, note := range existingNotes { if note.Type == req.Type ... }
HasNoteOfType(existingNotes, type) ==
    \E i \in DOMAIN existingNotes : existingNotes[i].Type = type

\* LoadConfig: the setting is read once, at start
LoadConfig(allow) ==
    /\ ~cfgLoaded
    /\ cfgLoaded' = TRUE
    /\ AllowMultipleNotesOfSameType' = allow
    /\ UNCHANGED <<notes, tnPc, tnType, tnStatus>>
    /\ UNCHANGED notTnVars

\* handleTransform up to the generation: bind the request and, unless several
\* notes of a type are allowed, ListNotes and answer 409 if one has req.Type
TransformCheckNotes(p, type) ==
    /\ cfgLoaded
    /\ tnPc[p] = "idle"
    /\ tnType' = [tnType EXCEPT ![p] = type]
    /\ IF ~AllowMultipleNotesOfSameType /\ HasNoteOfType(ListNotes, type)
       THEN /\ tnStatus' = [tnStatus EXCEPT ![p] = 409]
            /\ tnPc' = [tnPc EXCEPT ![p] = "done"]
       ELSE /\ tnStatus' = [tnStatus EXCEPT ![p] = 0]
            /\ tnPc' = [tnPc EXCEPT ![p] = "generate"]
    /\ UNCHANGED <<cfgLoaded, AllowMultipleNotesOfSameType, notes>>
    /\ UNCHANGED notTnVars

\* handleTransform from GenerateTransformation on: a failed generation or a
\* failed CreateNote answers 500, otherwise the note is saved and answered
TransformSaveNote(p) ==
    /\ tnPc[p] = "generate"
    /\ \/ /\ tnStatus' = [tnStatus EXCEPT ![p] = 500]
          /\ UNCHANGED notes
       \/ /\ Len(notes) < MaxNotes
          /\ notes' = CreateNote(notes, tnType[p])
          /\ tnStatus' = [tnStatus EXCEPT ![p] = 200]
    /\ tnPc' = [tnPc EXCEPT ![p] = "done"]
    /\ UNCHANGED <<cfgLoaded, AllowMultipleNotesOfSameType, tnType>>
    /\ UNCHANGED notTnVars

\* the answer is written and the goroutine ends
TransformAnswered(p) ==
    /\ tnPc[p] = "done"
    /\ tnPc' = [tnPc EXCEPT ![p] = "idle"]
    /\ tnType' = [tnType EXCEPT ![p] = "none"]
    /\ tnStatus' = [tnStatus EXCEPT ![p] = 0]
    /\ UNCHANGED <<cfgLoaded, AllowMultipleNotesOfSameType, notes>>
    /\ UNCHANGED notTnVars


(***************************************************************************)
(* The /api/notebooks/:id routes and checkNotebookAccess                   *)
(***************************************************************************)
\* c.GetString("user_id"): the identity the auth middleware has set
Callers == {"", "u1", "u2"}

NoAccess == [route |-> "none", userID |-> "", notebookID |-> "n1", status |-> 0]

\* an empty database
NoNotebooks ==
    /\ notebookOwner = [n \in Notebooks |-> "none"]
    /\ noteCount = [n \in Notebooks |-> 0]
    /\ sessionCount = [n \in Notebooks |-> 0]
    /\ lastAccess = NoAccess

Answer(route, userID, notebookID, status) ==
    [route |-> route, userID |-> userID, notebookID |-> notebookID, status |-> status]

\* Server.checkNotebookAccess(ctx, notebookID, userID): the error it returns
checkNotebookAccess(notebookID, userID) ==
    IF notebookOwner[notebookID] = "none" THEN "notebook not found"
    ELSE IF notebookOwner[notebookID] # "" /\ notebookOwner[notebookID] # userID
         THEN "access denied"
         ELSE "nil"

\* Server.handleCreateNotebook: the notebook belongs to the caller
handleCreateNotebook(userID, notebookID) ==
    /\ notebookOwner[notebookID] = "none"
    /\ notebookOwner' = [notebookOwner EXCEPT ![notebookID] = userID]
    /\ lastAccess' = Answer("POST /notebooks", userID, notebookID, 201)
    /\ UNCHANGED <<noteCount, sessionCount>>
    /\ UNCHANGED notApiVars

\* Server.handleListSources: checkNotebookAccess, then the list
handleListSources(userID, notebookID) ==
    /\ lastAccess' = Answer("GET sources", userID, notebookID,
                            IF checkNotebookAccess(notebookID, userID) # "nil"
                            THEN 403 ELSE 200)
    /\ UNCHANGED <<notebookOwner, noteCount, sessionCount>>
    /\ UNCHANGED notApiVars

\* Server.handleListNotes: s.store.ListNotes(ctx, notebookID), answered as is
handleListNotes(userID, notebookID) ==
    /\ notebookOwner[notebookID] # "none"
    /\ lastAccess' = Answer("GET notes", userID, notebookID, 200)
    /\ UNCHANGED <<notebookOwner, noteCount, sessionCount>>
    /\ UNCHANGED notApiVars

\* Server.handleCreateNote: bind, s.store.CreateNote, log the activity
handleCreateNote(userID, notebookID) ==
    /\ notebookOwner[notebookID] # "none"
    /\ noteCount[notebookID] < MaxItems
    /\ noteCount' = [noteCount EXCEPT ![notebookID] = @ + 1]
    /\ lastAccess' = Answer("POST notes", userID, notebookID, 201)
    /\ UNCHANGED <<notebookOwner, sessionCount>>
    /\ UNCHANGED notApiVars

\* Server.handleDeleteNote: s.store.DeleteNote(ctx, noteID); the note is one
\* of notebook notebookID (the :id of the path is not read)
handleDeleteNote(userID, notebookID) ==
    /\ noteCount[notebookID] > 0
    /\ noteCount' = [noteCount EXCEPT ![notebookID] = @ - 1]
    /\ lastAccess' = Answer("DELETE notes", userID, notebookID, 204)
    /\ UNCHANGED <<notebookOwner, sessionCount>>
    /\ UNCHANGED notApiVars

\* Server.handleTransform, as a route: user_id is read for the upload
\* directory and the activity log only; the note is saved in the notebook
handleTransformRoute(userID, notebookID) ==
    /\ notebookOwner[notebookID] # "none"
    /\ noteCount[notebookID] < MaxItems
    /\ noteCount' = [noteCount EXCEPT ![notebookID] = @ + 1]
    /\ lastAccess' = Answer("POST transform", userID, notebookID, 200)
    /\ UNCHANGED <<notebookOwner, sessionCount>>
    /\ UNCHANGED notApiVars

\* Server.handleListChatSessions: s.store.ListChatSessions(ctx, notebookID)
handleListChatSessions(userID, notebookID) ==
    /\ notebookOwner[notebookID] # "none"
    /\ lastAccess' = Answer("GET sessions", userID, notebookID, 200)
    /\ UNCHANGED <<notebookOwner, noteCount, sessionCount>>
    /\ UNCHANGED notApiVars

\* Server.handleCreateChatSession: s.store.CreateChatSession(ctx, notebookID, title)
handleCreateChatSession(userID, notebookID) ==
    /\ notebookOwner[notebookID] # "none"
    /\ sessionCount[notebookID] < MaxItems
    /\ sessionCount' = [sessionCount EXCEPT ![notebookID] = @ + 1]
    /\ lastAccess' = Answer("POST sessions", userID, notebookID, 201)
    /\ UNCHANGED <<notebookOwner, noteCount>>
    /\ UNCHANGED notApiVars

\* Server.handleDeleteChatSession: s.store.DeleteChatSession(ctx, sessionID);
\* the session is one of notebook notebookID
handleDeleteChatSession(userID, notebookID) ==
    /\ sessionCount[notebookID] > 0
    /\ sessionCount' = [sessionCount EXCEPT ![notebookID] = @ - 1]
    /\ lastAccess' = Answer("DELETE sessions", userID, notebookID, 204)
    /\ UNCHANGED <<notebookOwner, noteCount>>
    /\ UNCHANGED notApiVars

\* Server.handleSendMessage: the message is added to a session of the
\* notebook and answered by s.agent.Chat over the notebook
handleSendMessage(userID, notebookID) ==
    /\ sessionCount[notebookID] > 0
    /\ lastAccess' = Answer("POST messages", userID, notebookID, 200)
    /\ UNCHANGED <<notebookOwner, noteCount, sessionCount>>
    /\ UNCHANGED notApiVars

\* Server.handleChat, as a route: a session is created when the request names
\* none, and s.agent.Chat answers over the notebook
handleChatRoute(userID, notebookID) ==
    /\ notebookOwner[notebookID] # "none"
    /\ \/ /\ sessionCount[notebookID] < MaxItems
          /\ sessionCount' = [sessionCount EXCEPT ![notebookID] = @ + 1]
       \/ /\ sessionCount[notebookID] > 0
          /\ UNCHANGED sessionCount
    /\ lastAccess' = Answer("POST chat", userID, notebookID, 200)
    /\ UNCHANGED <<notebookOwner, noteCount>>
    /\ UNCHANGED notApiVars

(***************************************************************************)
(* Specifications                                                          *)
(***************************************************************************)
\* a server started on an empty database
InitServer ==
    /\ sources = <<>>
    /\ FreshServer
    /\ ImageIdle
    /\ CacheEmpty
    /\ NoNotebooks
    /\ NotesIdle
    /\ HistoryIdle
    /\ NotStarted
    /\ InsightIdle
    /\ RequestIdle
    /\ TextIdle
    /\ TransformIdle
    /\ PPTIdle

\* a server started on a database that already holds sources
InitLoad ==
    /\ sources \in SourceTables(MaxStoredSources)
    /\ FreshServer
    /\ ImageIdle
    /\ CacheEmpty
    /\ NoNotebooks
    /\ NotesIdle
    /\ HistoryIdle
    /\ NotStarted
    /\ InsightIdle
    /\ RequestIdle
    /\ TextIdle
    /\ TransformIdle
    /\ PPTIdle

\* one image client at a time, called by a handler
InitImage ==
    /\ sources = <<>>
    /\ FreshServer
    /\ ImageIdle
    /\ CacheEmpty
    /\ NoNotebooks
    /\ NotesIdle
    /\ HistoryIdle
    /\ NotStarted
    /\ InsightIdle
    /\ RequestIdle
    /\ TextIdle
    /\ TransformIdle
    /\ PPTIdle

\* the cached store, read and written as time passes
InitCache ==
    /\ sources = <<>>
    /\ FreshServer
    /\ ImageIdle
    /\ CacheEmpty
    /\ NoNotebooks
    /\ NotesIdle
    /\ HistoryIdle
    /\ NotStarted
    /\ InsightIdle
    /\ RequestIdle
    /\ TextIdle
    /\ TransformIdle
    /\ PPTIdle

\* the rest of the program at rest
ServerAtRest ==
    /\ sources = <<>>
    /\ FreshServer
    /\ ImageIdle
    /\ CacheEmpty
    /\ NoNotebooks
    /\ NotesIdle
    /\ HistoryIdle
    /\ NotStarted
    /\ InsightIdle
    /\ RequestIdle
    /\ TextIdle
    /\ TransformIdle

\* a ppt transformation whose generated text is one of the decks
InitPPT ==
    /\ ServerAtRest
    /\ pptPc = "start"
    /\ pptContent \in Decks
    /\ pptSlides = <<>>
    /\ pptIdx = 0
    /\ pptCalls = <<>>
    /\ slideURLs = <<>>
    /\ metadata = NoMetadata

\* ParsePPTSlides given any text of at most MaxLen tokens, or one of the decks
InitParse ==
    /\ ServerAtRest
    /\ pptPc = "start"
    /\ pptContent \in TokenStrings(MaxLen) \cup Decks
    /\ pptSlides = <<>>
    /\ pptIdx = 0
    /\ pptCalls = <<>>
    /\ slideURLs = <<>>
    /\ metadata = NoMetadata

\* every part of the program at rest
AtRest ==
    /\ ServerAtRest
    /\ PPTIdle

Init == InitServer

\* the server: every handler
Next ==
    \/ \E p \in Procs, n \in Notebooks : handleChat(p, n)
    \/ \E p \in Procs, n \in Notebooks : handleTransform(p, n)
    \/ \E p \in Procs : LoadEnter(p)
    \/ \E p \in Procs : LoadStep(p)
    \/ \E p \in Procs : LoadDone(p)
    \/ \E p \in Procs : handleChatBody(p)
    \/ \E p \in Procs, t \in TransformTypes : handleTransformBody(p, t)
    \/ \E p \in Procs : Reply(p)
    \/ \E n \in Notebooks, c \in Contents : handleAddSource(n, c)
    \/ \E n \in Notebooks, c \in Contents : handleUpload(n, c)

Spec == Init /\ [][Next]_vars

\* MaxProcs chat requests, each running the loader once, against a database
\* that already holds sources
NextLoad ==
    \/ \E p \in Procs, n \in Notebooks : handleChat(p, n)
    \/ \E p \in Procs : LoadEnter(p)
    \/ \E p \in Procs : LoadStep(p)
    \/ \E p \in Procs : LoadDone(p)

SpecLoad == InitLoad /\ [][NextLoad]_vars

\* GenerateImage calls on the three clients
NextImage ==
    \/ \E provider \in Providers, key \in Keys, userID \in UserIDs :
         GenerateImage(provider, key, userID)
    \/ GeminiBegin
    \/ GeminiAttempt
    \/ GeminiExhausted
    \/ GLMGenerateImage
    \/ ZImageGenerateImage
    \/ ImageReturn

SpecImage == InitImage /\ [][NextImage]_vars

\* reads and writes through the cached store, and the clock
NextCache ==
    \/ \E k \in CacheKeys : CachedRead(k)
    \/ \E k \in CacheKeys : CachedWrite(k)
    \/ Tick

SpecCache == InitCache /\ [][NextCache]_vars

\* the ppt block of handleTransform
NextPPT ==
    \/ PPTParse
    \/ PPTSlideImage
    \/ PPTLoopDone

SpecPPT == InitPPT /\ [][NextPPT]_vars

\* ParsePPTSlides as a function of its input
NextParse == Parse

SpecParse == InitParse /\ [][NextParse]_vars

\* transformations: source selection, context assembly, response and note
NextTransform ==
    \/ /\ trPc = "idle"
       /\ \E cfg \in ConfiguredLimits, stored \in NotebookTables(MaxCtxSources),
             requested \in RequestedLists :
            TransformSelect(cfg, stored, requested)
    \/ BuildContextStep
    \/ TransformRespond
    \/ TransformReturn

SpecTransform == AtRest /\ [][NextTransform]_vars

\* GenerateTextWithModel calls on the three clients
NextText ==
    \/ \E provider \in Providers, key \in Keys, model \in TextModels, prompt \in Prompts :
         GenerateTextWithModel(provider, key, model, prompt)
    \/ GeminiTextBegin
    \/ GeminiTextRequest
    \/ GLMGenerateText
    \/ ZImageGenerateText
    \/ TextReturn

SpecText == AtRest /\ [][NextText]_vars

\* a request, its generation steps, and what cancels them
NextCancel ==
    \/ \E kind \in RequestKinds : HandlerStart(kind)
    \/ ClientDisconnect
    \/ DeadlineExceeded
    \/ StepAborts
    \/ StepCompletes
    \/ HandlerReturn

SpecCancel == AtRest /\ [][NextCancel]_vars

\* insight analyses, MaxProcs at a time
NextInsight ==
    \/ ClockTick
    \/ \E p \in Procs : DeepInsightCall(p)
    \/ \E p \in Procs : DeepInsightExec(p)
    \/ \E p \in Procs : DeepInsightCat(p)
    \/ \E p \in Procs : DeepInsightRm(p)
    \/ \E p \in Procs : DeepInsightReturn(p)

SpecInsight == AtRest /\ [][NextInsight]_vars

\* chats on a database that holds sources, while sources are deleted
NextDelete ==
    \/ \E p \in Procs, n \in Notebooks : handleChat(p, n)
    \/ \E p \in Procs : LoadEnter(p)
    \/ \E p \in Procs : LoadStep(p)
    \/ \E p \in Procs : LoadDone(p)
    \/ \E p \in Procs : handleChatBody(p)
    \/ \E p \in Procs : Reply(p)
    \/ \E i \in 1..MaxStoredSources : handleDeleteSource(i)

SpecDelete == InitLoad /\ [][NextDelete]_vars

\* a server constructed from a configuration, serving image requests (no
\* GLM or Z-Image client is ever constructed, so only Gemini's steps follow)
NextProvider ==
    \/ \E imageProvider \in ImageProviders : NewServer(imageProvider)
    \/ SelectImageModel
    \/ \E key \in Keys, userID \in UserIDs : ProviderGenerateImage(key, userID)
    \/ GeminiBegin
    \/ GeminiAttempt
    \/ GeminiExhausted
    \/ ImageReturn
    \/ ImageBlockDone

SpecProvider == AtRest /\ [][NextProvider]_vars

\* chats in sessions of up to MaxHistory messages
NextHistory ==
    \/ /\ chPc = "idle"
       /\ \E history \in Histories : ChatHistoryBegin(history)
    \/ HistoryStep
    \/ HistoryLoopEnd
    \/ ChatReturn

SpecHistory == AtRest /\ [][NextHistory]_vars

\* transformations on one notebook, MaxProcs at a time
NextNotes ==
    \/ \E allow \in BOOLEAN : LoadConfig(allow)
    \/ \E p \in Procs, type \in NoteTypes : TransformCheckNotes(p, type)
    \/ \E p \in Procs : TransformSaveNote(p)
    \/ \E p \in Procs : TransformAnswered(p)

SpecNotes == AtRest /\ [][NextNotes]_vars

\* requests of the callers on the notebook routes
NextApi ==
    \E userID \in Callers, notebookID \in Notebooks :
      \/ handleCreateNotebook(userID, notebookID)
      \/ handleListSources(userID, notebookID)
      \/ handleListNotes(userID, notebookID)
      \/ handleCreateNote(userID, notebookID)
      \/ handleDeleteNote(userID, notebookID)
      \/ handleTransformRoute(userID, notebookID)
      \/ handleListChatSessions(userID, notebookID)
      \/ handleCreateChatSession(userID, notebookID)
      \/ handleDeleteChatSession(userID, notebookID)
      \/ handleSendMessage(userID, notebookID)
      \/ handleChatRoute(userID, notebookID)

SpecApi == AtRest /\ [][NextApi]_vars

(***************************************************************************)
(* Properties of the load guard and of the index                           *)
(***************************************************************************)
\* the sources of notebook n that the loader found when it listed the table
ListedSources(n) ==
    {i \in DOMAIN sources : i <= listed[n] /\ sources[i].notebookID = n}

\* C1: however many requests invoke the loader for a notebook, at most one of
\* them runs the load loop, no source is passed to IngestText more than once by
\* the loader, and once the notebook is marked loaded every listed source with
\* content has been passed to IngestText exactly once.
C1_LoadOnce ==
    /\ \A n \in Notebooks : loadRuns[n] <= 1
    /\ \A n \in Notebooks :
         Cardinality({p \in Procs : pc[p] = "loop" /\ req[p].notebookID = n}) <= 1
    /\ \A i \in DOMAIN sources : ingestCalls[i].load <= 1
    /\ \A n \in Notebooks :
         loadedNotebooks[n] =>
           \A i \in ListedSources(n) :
             ingestCalls[i].load = (IF sources[i].content # "" THEN 1 ELSE 0)

\* two requests for the same notebook are both past the loader, the notebook is
\* loaded and one of its sources was ingested by the loader
C1_Witness ==
    \E p, q \in Procs :
      /\ p # q
      /\ pc[p] = "body" /\ pc[q] = "body"
      /\ req[p].notebookID = req[q].notebookID
      /\ loadedNotebooks[req[p].notebookID]
      /\ \E i \in ListedSources(req[p].notebookID) : ingestCalls[i].load = 1

\* C2: the text of every source is ingested at most once: for no source does
\* IngestText succeed twice, and the index never holds two copies of a chunk.
C2_IngestedAtMostOnce ==
    /\ \A i \in DOMAIN sources : ingestCalls[i].ok <= 1
    /\ \A i, j \in DOMAIN vectorIndex :
         i # j => vectorIndex[i] # vectorIndex[j]

\* C3: a chat on notebook N retrieves, and names as its sources, only chunks
\* ingested under N.
C3_ChatScopedToNotebook ==
    \A p \in Procs :
      (pc[p] = "done" /\ req[p].kind = "chat") =>
        /\ \A d \in Range(resp[p].docs) : d.notebookID = req[p].notebookID
        /\ \A name \in Range(resp[p].sources) :
             sources[name].notebookID = req[p].notebookID

\* C8: the index holds chunks of a notebook exactly when the notebook is
\* marked loaded.
C8_ChunksIffLoaded ==
    \A n \in Notebooks :
      (\E j \in DOMAIN vectorIndex : vectorIndex[j].notebookID = n)
        <=> loadedNotebooks[n]

(***************************************************************************)
(* Properties of the image clients                                         *)
(***************************************************************************)
ImageDone(provider) == imgPc = "done" /\ imgCall.provider = provider

AllFailed(outcomes, ok) == \A i \in DOMAIN outcomes : outcomes[i] # ok

\* C4: GeminiClient.GenerateImage makes at most 3 upstream attempts; when every
\* attempt fails it makes exactly 3 and returns the terminal error wrapping the
\* error of the third; when the first fails and the second succeeds, it returns
\* the path of the saved file after exactly 2.
C4_GeminiRetryBound ==
    imgCall.provider = "gemini" =>
      /\ Len(imgOutcomes) <= 3
      /\ (imgPc = "done" /\ imgOutcomes # <<>> /\ AllFailed(imgOutcomes, "image")) =>
           /\ Len(imgOutcomes) = 3
           /\ imgResult.kind = "error"
           /\ imgResult.err = "failed to generate image after 3 attempts"
           /\ imgResult.cause = GeminiAttemptErr(imgOutcomes[3])
      /\ (imgPc = "done" /\ Len(imgOutcomes) >= 2
            /\ imgOutcomes[1] # "image" /\ imgOutcomes[2] = "image") =>
           /\ Len(imgOutcomes) = 2
           /\ imgResult.kind = "path" \/ imgResult.cause \in {"mkdir", "write"}
      /\ (imgPc = "done" /\ imgResult.kind = "path") =>
           imgOutcomes[Len(imgOutcomes)] = "image"

\* three failed attempts, the last of another kind than the first two
C4_Witness ==
    /\ ImageDone("gemini")
    /\ imgOutcomes = <<"call_error", "no_candidates", "no_image_data">>
    /\ imgResult.cause = "no image data in response"

\* C5: the GLM and Z-Image clients retry a transient failure (transport
\* failure, API error code, no image URL): when they return such an error
\* they have made 3 generation requests.
C5_ImageBackendsRetry ==
    \A provider \in {"glm", "zimage"} :
      (ImageDone(provider) /\ imgResult.kind = "error"
         /\ imgResult.cause \in {"transport_error", "api_error", "no_url"}) =>
        Len(imgOutcomes) = 3

\* C14: for each of the three providers, GenerateImage called with an empty
\* credential returns an error without any upstream request and without any
\* retry attempt.
C14_EmptyCredentialFailsFast ==
    (imgCall.provider \in Providers /\ imgCall.key = "") =>
      /\ imgPc \in {"called", "done"}
      /\ imgOutcomes = <<>>
      /\ imgAttempt = 0
      /\ imgPc = "done" =>
           /\ imgResult.kind = "error"
           /\ imgResult.cause = "none"
           /\ imgResult.err \in {"google_api_key is not set", "glm_api_key is not set",
                                 "zimage_api_key is not set"}

\* the Gemini client, the one with a retry loop, refuses an empty key
C14_Witness ==
    /\ ImageDone("gemini")
    /\ imgCall.key = ""
    /\ imgResult.err = "google_api_key is not set"
    /\ imgOutcomes = <<>>

\* C19: every provider's GenerateImage writes the image under the per-user
\* directory ./data/uploads/<userID> when a user identity is supplied, and
\* under the shared ./data/uploads only when there is none; the path returned
\* is the path written.
C19_PerUserUploadDir ==
    \A provider \in Providers :
      (ImageDone(provider) /\ imgResult.kind = "path") =>
        imgResult.dir = IF imgCall.userID # "" THEN "./data/uploads/<userID>"
                        ELSE "./data/uploads"

(***************************************************************************)
(* Properties of the cached store                                          *)
(***************************************************************************)
\* C6: through the wrapper, a read of a key that follows a create, update or
\* delete of that key never returns the value that was cached before the
\* mutation; it returns the value the mutation left in the store.
C6_ReadAfterWriteFresh ==
    \A k \in CacheKeys :
      (lastOp.kind = "read" /\ lastOp.key = k /\ preWrite[k] # -1) =>
        /\ lastOp.value # preWrite[k]
        /\ lastOp.value = store[k]

\* a key is cached, mutated and read at once, inside the ttl of the old entry
C6_Witness ==
    /\ lastOp.kind = "read"
    /\ lastOp.afterWrite
    /\ preWrite[lastOp.key] # -1
    /\ lastOp.value = preWrite[lastOp.key] + 1
    /\ lastOp.at < 5

\* C7: a read returns the cached value only while less than 5 minutes have
\* elapsed since it was fetched; a read at or after expiry goes to the backing
\* store and re-populates the entry with the time of the read.
C7_TTLBoundsStaleness ==
    lastOp.kind = "read" =>
      /\ ~lastOp.roundTrip => (lastOp.age >= 0 /\ lastOp.age < 5)
      /\ lastOp.age >= 5 =>
           /\ lastOp.roundTrip
           /\ lastOp.stamp = lastOp.at
           /\ cache[lastOp.key].present
           /\ cache[lastOp.key].insertedAt = lastOp.at

\* a read exactly 5 minutes after the fetch, and then one of the new entry
C7_Witness ==
    /\ lastOp.kind = "read"
    /\ lastOp.age = 5
    /\ lastOp.roundTrip
    /\ cache[lastOp.key].insertedAt = lastOp.at

C17_PartialFailureExplained ==
    (/\ pptPc = "done"
     /\ Len(pptSlides) <= 10
     /\ Len(slideURLs) > 0
     /\ Len(slideURLs) < Len(pptCalls)) =>
      /\ metadata.slides = slideURLs
      /\ metadata.image_error

\* a text in which no marker occurs, or a narrative-goal marker neither
\* occurs nor a heading starts a line
Unstructured(c) ==
    \/ \A i \in DOMAIN c : c[i] \notin {"MG", "ME", "ng", "KC"}
    \/ \A i \in DOMAIN c : c[i] \notin {"MG", "ME", "H", "HH"}

\* C10: ParsePPTSlides never returns an empty sequence, the empty text
\* included; when neither the heading strategy nor the marker split yields a
\* slide it returns exactly one slide, whose content is the whole input.
C10_NeverEmpty ==
    pptPc = "parsed" =>
      /\ Len(pptSlides) >= 1
      /\ (\/ Unstructured(pptContent)
          \/ /\ HeadingSlides(pptContent, ExtractStyle(pptContent)) = <<>>
             /\ MarkerSlides(pptContent, ExtractStyle(pptContent)) = <<>>) =>
           /\ Len(pptSlides) = 1
           /\ pptSlides[1].Content = pptContent

\* a heading without any section marker: the heading strategy drops its
\* region, there is no marker to split on, and the whole text is the slide
C10_Witness ==
    /\ pptPc = "parsed"
    /\ pptContent = <<"H", "x", "NL", "x">>
    /\ pptSlides = <<[Style |-> <<>>, Content |-> pptContent]>>

\* how often tok occurs in c
Count(c, tok) == Cardinality({i \in DOMAIN c : c[i] = tok})

\* the contents of the slides, one after another
RECURSIVE Joined(_)
Joined(slides) ==
    IF slides = <<>> THEN <<>> ELSE Head(slides).Content \o Joined(Tail(slides))

\* no line of c starts with a heading
NoHeadingLine(c) == \A i \in DOMAIN c : ~(LineStart(c, i) /\ c[i] \in {"H", "HH"})

\* the marker the split is made on: the localized one whenever it occurs
SplitMarker(c) == IF \E i \in DOMAIN c : c[i] = "MG" THEN "MG" ELSE "ME"

\* C11: when no heading line matches and the text holds a narrative-goal
\* marker, ParsePPTSlides returns one slide per occurrence of the marker, each
\* being the marker and the text up to its next occurrence; the text before
\* the first marker is in no slide; "// 叙事目标" is the marker split on
\* whenever it occurs, "// NARRATIVE GOAL" only otherwise.
C11_MarkerSplit ==
    (/\ pptPc = "parsed"
     /\ NoHeadingLine(pptContent)
     /\ \E i \in DOMAIN pptContent : pptContent[i] \in {"MG", "ME"}) =>
      LET marker == SplitMarker(pptContent)
          first == CHOOSE i \in DOMAIN pptContent :
                     pptContent[i] = marker /\ \A j \in 1..(i - 1) : pptContent[j] # marker
      IN /\ Len(pptSlides) = Count(pptContent, marker)
         /\ \A k \in DOMAIN pptSlides :
              /\ Head(pptSlides[k].Content) = marker
              /\ Count(pptSlides[k].Content, marker) = 1
         /\ Joined(pptSlides) = SubSeq(pptContent, first, Len(pptContent))

\* both markers occur after some text: the split is on the localized one, the
\* English marker stays inside a slide and the leading text is dropped
C11_Witness ==
    /\ pptPc = "parsed"
    /\ pptContent = <<"x", "MG", "ME", "MG">>
    /\ pptSlides = <<[Style |-> <<>>, Content |-> <<"MG", "ME">>],
                     [Style |-> <<>>, Content |-> <<"MG">>]>>

\* the text between the first opening style tag and the first closing one
\* when that one comes later, the empty text otherwise
StyleBlock(c) ==
    IF \E i, j \in DOMAIN c :
         /\ c[i] = "SS" /\ c[j] = "SE" /\ i < j
         /\ \A k \in 1..(i - 1) : c[k] # "SS"
         /\ \A k \in 1..(j - 1) : c[k] # "SE"
    THEN LET i == CHOOSE i \in DOMAIN c : c[i] = "SS" /\ \A k \in 1..(i - 1) : c[k] # "SS"
             j == CHOOSE j \in DOMAIN c : c[j] = "SE" /\ \A k \in 1..(j - 1) : c[k] # "SE"
         IN [k \in 1..(j - i - 1) |-> c[i + k]]
    ELSE <<>>

\* the text from the k-th heading match up to the next one, or to the end
RegionOf(c, k) ==
    LET starts == HeadingMatches(c, 1)
    IN [n \in 1..((IF k < Len(starts) THEN starts[k + 1] ELSE Len(c) + 1) - starts[k]) |->
          c[starts[k] + n - 1]]

\* the heading matches whose region holds a section marker
AcceptedRegions(c) ==
    {k \in DOMAIN HeadingMatches(c, 1) :
       \E i \in DOMAIN RegionOf(c, k) : RegionOf(c, k)[i] \in {"MG", "ME", "ng", "KC"}}

RECURSIVE IsPrefix(_, _)
IsPrefix(t, content) ==
    \/ t = <<>>
    \/ /\ content # <<>>
       /\ Head(t).byte = Head(content).byte
       /\ \/ Head(t).count = Head(content).count /\ IsPrefix(Tail(t), Tail(content))
          \/ Head(t).count < Head(content).count /\ Tail(t) = <<>>

\* C13: in GenerateTransformation a source longer than the effective limit
\* (MaxContextLength, 100000 when that is <= 0) contributes exactly its first
\* limit bytes and then the marker with its original length; a source of at
\* most limit bytes contributes its content unchanged, without marker; a
\* source without content contributes the placeholder with its name and type.
C13_TruncationAtLimit ==
    \A i \in DOMAIN sourceContext :
      LET src == trSources[i]
          body == sourceContext[i].body
          limit == IF trCfg <= 0 THEN 100000 ELSE trCfg
          length == ByteLen(src.Content)
      IN /\ length > limit =>
              /\ Len(body) = 2
              /\ body[1].kind = "content"
              /\ ByteLen(body[1].text) = limit
              /\ IsPrefix(body[1].text, src.Content)
              /\ body[2].kind = "truncated" /\ body[2].total = length
         /\ (length > 0 /\ length <= limit) =>
              /\ Len(body) = 1
              /\ body[1].kind = "content" /\ body[1].text = src.Content
         /\ length = 0 =>
              /\ Len(body) = 1
              /\ body[1].kind = "placeholder"
              /\ body[1].name = src.Name /\ body[1].type = src.Type

\* with the default limit: a source of exactly 100000 bytes goes in whole, one
\* of 100001 bytes is cut to 100000 and marked
C13_Witness ==
    /\ trCfg = 0
    /\ Len(sourceContext) = 2
    /\ ByteLen(trSources[1].Content) = 100000
    /\ Len(sourceContext[1].body) = 1
    /\ ByteLen(trSources[2].Content) = 100001
    /\ sourceContext[2].body[1].text = <<Run("a", 100000)>>
    /\ sourceContext[2].body[2].total = 100001

\* C20: the sources recorded for a transformation, in the response and in the
\* SourceIDs of the saved note, are exactly the sources whose content went
\* into the prompt.
C20_RecordedSourcesAreUsed ==
    (trPc = "done" /\ trResponse.status = "ok") =>
      LET used == {trSources[i].ID : i \in DOMAIN sourceContext}
      IN /\ {trResponse.Sources[i].ID : i \in DOMAIN trResponse.Sources} = used
         /\ trNote.saved => {trNote.SourceIDs[i] : i \in DOMAIN trNote.SourceIDs} = used

(***************************************************************************)
(* Properties of text generation                                           *)
(***************************************************************************)
\* every part of the response has an empty text
OnlyEmptyText(parts) == \A i \in DOMAIN parts : parts[i] = <<>>

\* C15: for every provider GenerateTextWithModel never returns an empty text
\* with a nil error: the GLM and Z-Image clients always return their
\* 'does not support text generation' error, and GeminiClient returns an error
\* when the response has no candidates, no parts, or only empty text.
C15_NoSilentEmptyText ==
    txtPc = "done" =>
      /\ ~(txtResult.text = <<>> /\ txtResult.err = "none")
      /\ txtCall.provider = "glm" =>
           txtResult.err = "GLM-Image client does not support text generation"
      /\ txtCall.provider = "zimage" =>
           txtResult.err = "Z-Image client does not support text generation"
      /\ (/\ txtCall.provider = "gemini"
          /\ txtRequests = 1
          /\ \/ txtResponse.kind \in {"no_candidates", "nil_content"}
             \/ txtResponse.kind = "candidate" /\ OnlyEmptyText(txtResponse.parts)) =>
           /\ txtResult.err # "none"
           /\ txtResult.text = <<>>

\* Gemini answers with a candidate whose parts all carry an empty text
C15_Witness ==
    /\ txtPc = "done"
    /\ txtCall.provider = "gemini"
    /\ txtResponse = [kind |-> "candidate", parts |-> << <<>>, <<>> >>]
    /\ txtResult = [text |-> <<>>, err |-> "empty response from model"]

(***************************************************************************)
(* Properties of request cancellation                                      *)
(***************************************************************************)
\* C16: when the HTTP request of a transform or chat is cancelled while a
\* provider call or the insight analysis is in flight, the cancellation
\* reaches the call in flight: the context the call runs under is done.
C16_CancellationReachesCall ==
    (hcPc = "call" /\ "request" \in hcCancelled) =>
      CtxDone(Plan(hcKind)[hcStep].ctx, hcCancelled)

(***************************************************************************)
(* Properties of callDeepInsight                                           *)
(***************************************************************************)
\* C18: callDeepInsight removes its temporary report file on every outcome:
\* when it has returned, whether with the report or with an error of the
\* command or of the read, its file is not in ./tmp.
C18_TmpFileRemoved ==
    \A p \in Procs :
      diPc[p] = "done" => tmpFiles[diFile[p]] = NoProc

(***************************************************************************)
(* Properties of source deletion                                           *)
(***************************************************************************)
\* C21: once handleDeleteSource has deleted a source, the index holds no chunk
\* of that source (so that no later chat can retrieve one).
C21_DeletedSourceLeavesIndex ==
    \A j \in DOMAIN vectorIndex :
      sources[vectorIndex[j].source].notebookID # "deleted"

(***************************************************************************)
(* Properties of the choice of the image backend                           *)
(***************************************************************************)
\* C22: the client that serves a GenerateImage call is the one selected by
\* cfg.ImageProvider, and the model name it is given is the one configured for
\* that same backend.
C22_BackendIsConfigured ==
    (imgPc # "idle" /\ cfgImageProvider \in {"glm", "zimage"}) =>
      /\ imgCall.provider = cfgImageProvider
      /\ ModelBackend(imageModel) = imgCall.provider

(***************************************************************************)
(* Properties of the loader's error handling                               *)
(***************************************************************************)
\* the IngestText calls the loader owes a source: one if it has content
LoaderCalls(src) == IF src.content # "" THEN 1 ELSE 0

\* C23: while the loader runs, every source it has passed has been given to
\* IngestText once if it has content and not at all if it is empty, whether or
\* not the calls before it failed; an invocation that ran the loop ends with
\* the notebook marked loaded (the nil return), all its listed sources so
\* treated, and its request past the loader.
C23_IngestFailureSkipped ==
    /\ \A p \in Procs :
         pc[p] = "loop" =>
           \A k \in 1..(loadIdx[p] - 1) :
             ingestCalls[loadList[p][k].id].load = LoaderCalls(loadList[p][k])
    /\ \A n \in Notebooks :
         (loadRuns[n] >= 1 /\ ~\E p \in Procs : pc[p] = "loop" /\ req[p].notebookID = n) =>
           /\ loadedNotebooks[n]
           /\ \A i \in ListedSources(n) : ingestCalls[i].load = LoaderCalls(sources[i])
           /\ \E p \in Procs : pc[p] = "body" /\ req[p].notebookID = n

\* a loader has returned for a notebook whose first source failed to ingest and
\* whose second source was ingested after it; the request is past the loader
C23_Witness ==
    \E p \in Procs :
      /\ pc[p] = "body"
      /\ loadedNotebooks[req[p].notebookID]
      /\ ListedSources(req[p].notebookID) = {1, 2}
      /\ ingestCalls[1].load = 1 /\ ingestCalls[1].ok = 0
      /\ ingestCalls[2].load = 1 /\ ingestCalls[2].ok = 1

(***************************************************************************)
(* Properties of the per-slide image loop                                  *)
(***************************************************************************)
\* the slides of the calls that returned an image, in call order
RECURSIVE SuccessfulSlides(_)
SuccessfulSlides(calls) ==
    IF calls = <<>> THEN <<>>
    ELSE LET front == SuccessfulSlides(SubSeq(calls, 1, Len(calls) - 1))
             last == calls[Len(calls)]
         IN IF last.ok THEN Append(front, last.slide) ELSE front

\* C24: for a deck of n <= 10 slides the GenerateImage calls are made one per
\* slide, in slide order, whichever of them fail: the j-th call is for slide j,
\* the URLs collected are exactly those of the calls that succeeded, in slide
\* order, and the block ends after n calls with that list as the slides entry.
C24_OneCallPerSlideInOrder ==
    (pptPc \in {"loop", "done"} /\ Len(pptSlides) <= 10) =>
      /\ \A j \in DOMAIN pptCalls : pptCalls[j].slide = j
      /\ pptPc = "loop" => Len(pptCalls) = pptIdx - 1
      /\ slideURLs = SuccessfulSlides(pptCalls)
      /\ pptPc = "done" =>
           /\ Len(pptCalls) = Len(pptSlides)
           /\ metadata.slides = slideURLs

\* a deck of three slides is done: the image of the second slide failed, the
\* other two are in the slides list
C24_Witness ==
    /\ pptPc = "done"
    /\ Len(pptSlides) = 3
    /\ ~pptCalls[2].ok
    /\ metadata.slides = <<1, 3>>

(***************************************************************************)
(* Properties of the validation of heading regions                         *)
(***************************************************************************)
\* the tokens whose text holds, in some letter case, one of 叙事目标,
\* narrative goal, 关键内容
MarkerTexts == {"MG", "ME", "ng", "KC"}

\* the region holds one of the section markers, letter case aside
HoldsMarker(region) == \E i \in DOMAIN region : region[i] \in MarkerTexts

\* the k-th heading region is the content of one of the slides
ReturnedAsSlide(slides, c, k) ==
    \E j \in DOMAIN slides : slides[j].Content = RegionOf(c, k)

\* C25: under the heading strategy (some heading region passes the
\* validation) a region is returned as a slide if and only if it holds,
\* compared without regard to letter case, one of the section markers; the
\* other regions are dropped and nothing else is returned.
C25_RegionIffMarker ==
    (/\ pptPc = "parsed"
     /\ \E k \in DOMAIN HeadingMatches(pptContent, 1) :
          HoldsMarker(RegionOf(pptContent, k))) =>
      /\ \A k \in DOMAIN HeadingMatches(pptContent, 1) :
           ReturnedAsSlide(pptSlides, pptContent, k)
             <=> HoldsMarker(RegionOf(pptContent, k))
      /\ \A j \in DOMAIN pptSlides :
           \E k \in DOMAIN HeadingMatches(pptContent, 1) :
             pptSlides[j].Content = RegionOf(pptContent, k)

\* two heading regions: the one that holds "Narrative Goal" is the only slide,
\* the one without a marker is dropped
C25_Witness ==
    /\ pptPc = "parsed"
    /\ pptContent = <<"H", "ng", "NL", "H">>
    /\ pptSlides = <<[Style |-> <<>>, Content |-> <<"H", "ng", "NL">>]>>

(***************************************************************************)
(* Properties of the chat history block                                    *)
(***************************************************************************)
\* the last n elements of seq, all of it when it has no more than n
LastN(seq, n) ==
    IF Len(seq) <= n THEN seq ELSE SubSeq(seq, Len(seq) - n + 1, Len(seq))

\* C26: the history block holds at most 10 turns; they are the last 10
\* messages of the history when it has more than 10, each under the label of
\* its role.
C26_LastTenTurns ==
    chPc = "done" =>
      /\ Len(historyBuilder) <= 10
      /\ historyBuilder =
           [i \in DOMAIN LastN(chHistory, 10) |->
              [label |-> IF LastN(chHistory, 10)[i].Role = "assistant"
                         THEN "assistant" ELSE "user",
               Content |-> LastN(chHistory, 10)[i].Content]]

(***************************************************************************)
(* Properties of the text request                                          *)
(***************************************************************************)
\* the responses that end the invocation with an error
FailedTextResponse(response) ==
    \/ response.kind \in {"call_error", "no_candidates", "nil_content"}
    \/ response.kind = "candidate" /\ \A i \in DOMAIN response.parts : response.parts[i] = <<>>

\* C27: one invocation of GenerateTextWithModel makes at most one upstream
\* GenerateContent call: as soon as a response is in, whatever it is, the
\* invocation is over with exactly one call made, and a call error, an empty
\* candidate list or an empty text has ended it with an error.
C27_SingleTextRequest ==
    /\ txtRequests <= 1
    /\ txtPc = "request" => txtRequests = 0
    /\ txtResponse # NoTextResponse =>
         /\ txtPc = "done"
         /\ txtRequests = 1
         /\ FailedTextResponse(txtResponse) => txtResult.err # "none"

\* the upstream call of a Gemini invocation failed: the invocation is over
\* with an error after that one call
C27_Witness ==
    /\ txtPc = "done"
    /\ txtCall.provider = "gemini"
    /\ txtResponse.kind = "call_error"
    /\ txtRequests = 1
    /\ txtResult.err = "failed to generate gemini text"

(***************************************************************************)
(* Properties of concurrent insight analyses                               *)
(***************************************************************************)
\* the goroutine is inside callDeepInsight, between naming its file and returning
InsightRunning(p) == diPc[p] \in {"exec", "cat", "rm"}

\* C28: two insight analyses that run at the same time never have the same
\* temporary report file, and an analysis never reads a report that another
\* one wrote.
C28_ReportFilesDisjoint ==
    /\ \A p, q \in Procs :
         (p # q /\ InsightRunning(p) /\ InsightRunning(q)) => diFile[p] # diFile[q]
    /\ \A p \in Procs : diResult[p].report \in {NoProc, p}

(***************************************************************************)
(* Properties of the notes saved by transformations                        *)
(***************************************************************************)
\* C29: when AllowMultipleNotesOfSameType is false, the notebook never holds
\* two notes of the same type saved by handleTransform.
C29_OneNotePerType ==
    (cfgLoaded /\ ~AllowMultipleNotesOfSameType) =>
      \A i, j \in DOMAIN notes : i # j => notes[i].Type # notes[j].Type

(***************************************************************************)
(* Properties of the access to a notebook                                  *)
(***************************************************************************)
\* the routes on the notes, the transformations, the chat and the chat
\* sessions of a notebook
GuardedRoutes ==
    {"GET notes", "POST notes", "DELETE notes", "POST transform", "POST chat",
     "POST messages", "GET sessions", "POST sessions", "DELETE sessions"}

\* C30: no request on the notes, transformation, chat or chat session routes
\* of a notebook is served to an authenticated user when the notebook has an
\* owner and the owner is somebody else.
C30_OwnerOnly ==
    (/\ lastAccess.route \in GuardedRoutes
     /\ lastAccess.userID # ""
     /\ notebookOwner[lastAccess.notebookID] \notin {"none", "", lastAccess.userID}) =>
      lastAccess.status \notin {200, 201, 204}

====
